---- MODULE Spec2Model ----
(***************************************************************************)
(* State-machine model of the household automation hub                     *)
(* (davebekker/signal_automation): the allowance catch-up of BudgetBot,    *)
(* the milestone scheduler of BinBot, the watch monitor of TrainBot and    *)
(* the command router of master_bot.                                       *)
(*                                                                         *)
(* Each bot is checked under its own specification (SpecBudget, SpecBin,   *)
(* SpecTrain, SpecRouter); the variables of the other bots stay at their   *)
(* idle values there.  Names starting with g are history variables: they   *)
(* record what happened and are never read by an action's guard or by a    *)
(* program variable's update.                                              *)
(***************************************************************************)
EXTENDS Integers, Sequences, FiniteSets, TLC

VARIABLES
    \* ---- BudgetBot (src/budget_bot.py)
    bNow,       \* wall clock, in clock ticks (TicksPerDay ticks a day)
    bPc,        \* position of weekly_task: "eval", "mid", "alert", "sleep", "down"
    bMem,       \* self.state
    bFile,      \* budget_state.json: <<>> when missing or unreadable, else <<state>>
    bLoc,       \* locals of weekly_task: last_date, weeks, next_update
    bWake,      \* the clock value the pending asyncio.sleep ends at
    bCmds,      \* number of commands handled so far (bounded by MaxCmds)
    bStops,     \* number of process stops so far (bounded by MaxStops)
    gEval,      \* what the evaluation in progress started from
    gDone,      \* the last completed crediting evaluation
    gCred,      \* initial checkpoint, number of weeks credited since, and the
                \* checkpoint held in memory when the process last stopped (-1
                \* while it runs)
    \* ---- BinBot (src/bin_bot.py)
    nNow,       \* wall clock, in hours since the start of year 0
    nPc,        \* position of bin_scheduler: "start", "fetch1", "retry", "sleep",
                \* "alert", "fetch2", "down"
    nCache,     \* bins.json: <<>> when missing, else the list of collections
    nLoc,       \* locals of bin_scheduler: now, next_date, and the index of the
                \* milestone the cycle is at
    nWake,      \* the clock value the pending asyncio.sleep ends at
    nStops,     \* number of process stops so far (bounded by MaxBinStops)
    gSent,      \* the reminders sent so far, as <<collection date, milestone>>
    gDouble,    \* a reminder was sent that had been sent before
    gCycle,     \* this cycle: the milestones whose target was ahead at its start,
                \* the reminders sent so far, and the number (counted up to 2) of
                \* cycles in a row that went from the top to the refresh fetch
                \* with no sleep
    \* ---- TrainBot (src/train_bot.py)
    tSubs,      \* self.subscriptions, in insertion order: a sequence of watches
    tCtx,       \* current_context_crs and current_context_filter
    tPc,        \* position of monitor_subscriptions: "sleep", "fetch", "iter", "alert"
    tLoc,       \* locals of monitor_subscriptions: to_remove, the stations still to
                \* visit, station, trains, the items being iterated and the index
    tCmds,      \* number of commands handled so far (bounded by MaxTrainCmds)
    gEmit,      \* the key the latest step emitted an alert for ("" when none)
    gUnwatched, \* keys named by an /unwatch and not watched again since
    gAbsent,    \* keys this tick found absent from the fetch of their station
    gRetired,   \* keys removed for absence and not watched again since
    gFresh,     \* keys watched while this tick was suspended, not marked since
    gLost,      \* freshly watched keys the end of the last tick deleted
    gFail,      \* keys: the watches of the stations whose fetch failed in this tick;
                \* lost: those of them the end of the last tick deleted;
                \* spared: the keys that were marked when the last tick aborted
    gTick,      \* this tick: the stations watched at its start, and the number of
                \* fetches made for each station (counted up to 2)
    gReply,     \* what the latest step, when a /watch, gave: "watching" or "raised"
    \* ---- the command router (src/master_bot.py)
    rPc,        \* position of master_listener: "poll", "msg", "handle", "send",
                \* "sleep"
    rBatch,     \* data: the messages of the latest poll
    rIdx,       \* the index of msg in data
    rReply,     \* reply: what the handler returned
    gCalls,     \* the handle_command calls made for the latest batch
    gSends,     \* the posts to the send endpoint made for the latest batch
    \* ---- ReminderBot (src/bots/reminder_bot.py)
    mNow,       \* the wall clock of the reminder loop, in ticks
    mReminders, \* self.reminders: a sequence of [time, task]
    mFile,      \* data/reminders.json: the list last saved
    mPc,        \* position of check_reminders: "sleep", "alert"
    mLoc,       \* locals of check_reminders: due, remaining and the index in due
    mCmds,      \* number of commands handled so far (bounded by MaxRemCmds)
    gNew,       \* reminders added while this pass was suspended, not deleted since
    gGone,      \* reminders deleted while this pass was suspended
    gUndone,    \* commands of the suspension that the end of the last pass undid
    gDel,       \* <<n>> when the latest step handled /del n, else <<>>
    \* ---- the older ReminderBot (src/bots/import os.py)
    oNow,       \* the wall clock of the older reminder loop, in ticks
    oDir,       \* the data directory exists, so reminders.json can be written
    oReminders, \* self.reminders: a sequence of [time, task, done]
    oFile,      \* data/reminders.json: the list last saved
    oPc,        \* position of check_reminders: "sleep", "loop", "alert", "terminated"
    oLoc,       \* locals of check_reminders: now, pending and the index in the list
    oCmds,      \* number of commands handled so far (bounded by MaxRemCmds)
    \* ---- process start (src/master_bot.py, main)
    sEnv,       \* the environment: the names of the variables that are set
    sPc,        \* position of main: "off", "budget", "train", "bin", "nest",
                \* "gather", "running", "crashed"
    sBots,      \* the bots constructed so far
    sLog,       \* the errors logged so far
    sLoops,     \* the coroutines handed to asyncio.gather
    \* ---- the state stores (load functions of every bot)
    lFiles,     \* what each store's file holds: "missing", "malformed" or "valid"
    lOut,       \* what each store's load gave: "unloaded", "default", "content", "raised"
    \* ---- NestBot (src/nest_bot.py)
    xNow,       \* the wall clock of the sync loop, in ticks
    xEnabled,   \* self.messaging_enabled
    xState,     \* self.state: the last event time stored for each device (0 when none)
    xClips,     \* the clip files in the download folder, as <<device, start time>>
    xPc,        \* position of sync_task: "sleep", "device", "event", "alert"
    xLoc,       \* locals of sync_task: now, the devices still to sync, device, events, index, latest_event_time
    xCmds,      \* number of commands handled so far (bounded by MaxNestCmds)
    xStops,     \* number of restarts so far (bounded by MaxNestStops)
    gAlerted,   \* the clips an alert has been sent for
    gMiss       \* the clips whose download returned no data, not saved since

varsBudget == <<bNow, bPc, bMem, bFile, bLoc, bWake, bCmds, bStops, gEval, gDone, gCred>>

varsBin == <<nNow, nPc, nCache, nLoc, nWake, nStops, gSent, gDouble, gCycle>>

varsTrain == <<tSubs, tCtx, tPc, tLoc, tCmds, gEmit, gUnwatched, gAbsent, gRetired,
               gFresh, gLost, gFail, gTick, gReply>>

varsRouter == <<rPc, rBatch, rIdx, rReply, gCalls, gSends>>

varsRemind == <<mNow, mReminders, mFile, mPc, mLoc, mCmds, gNew, gGone, gUndone, gDel>>

varsOlder == <<oNow, oDir, oReminders, oFile, oPc, oLoc, oCmds>>

varsStart == <<sEnv, sPc, sBots, sLog, sLoops>>

varsLoad == <<lFiles, lOut>>

varsNest == <<xNow, xEnabled, xState, xClips, xPc, xLoc, xCmds, xStops, gAlerted, gMiss>>

vars == <<varsBudget, varsBin, varsTrain, varsRouter, varsRemind, varsOlder, varsStart, varsLoad, varsNest>>

\* what the actions of one bot leave alone
notBudget == <<varsBin, varsTrain, varsRouter, varsRemind, varsOlder, varsStart, varsLoad, varsNest>>
notBin == <<varsBudget, varsTrain, varsRouter, varsRemind, varsOlder, varsStart, varsLoad, varsNest>>
notTrain == <<varsBudget, varsBin, varsRouter, varsRemind, varsOlder, varsStart, varsLoad, varsNest>>
notRouter == <<varsBudget, varsBin, varsTrain, varsRemind, varsOlder, varsStart, varsLoad, varsNest>>
notRemind == <<varsBudget, varsBin, varsTrain, varsRouter, varsOlder, varsStart, varsLoad, varsNest>>
notOlder == <<varsBudget, varsBin, varsTrain, varsRouter, varsRemind, varsStart, varsLoad, varsNest>>
notStart == <<varsBudget, varsBin, varsTrain, varsRouter, varsRemind, varsOlder, varsLoad, varsNest>>
notLoad == <<varsBudget, varsBin, varsTrain, varsRouter, varsRemind, varsOlder, varsStart, varsNest>>
notNest == <<varsBudget, varsBin, varsTrain, varsRouter, varsRemind, varsOlder, varsStart, varsLoad>>

(***************************************************************************)
(* Bounds of the model                                                     *)
(***************************************************************************)
TicksPerDay == 2        \* clock resolution: ticks in one day
MaxDay == 22            \* the clock stops after this many days
MaxCmds == 1            \* commands handled in one behaviour
MaxStops == 2           \* process stops in one behaviour

MaxBinDays == 4         \* the bin clock stops this many days after its start
MaxBinStops == 1        \* process stops of the bin scheduler in one behaviour
FetchHorizon == 2       \* a fetch returns collection dates up to this many days ahead
MaxTrainCmds == 3       \* train commands handled in one behaviour
MaxBatch == 2           \* messages returned by one poll
MaxRemNow == 2          \* the reminder clock stops at this tick
MaxRemCmds == 3         \* reminder commands handled in one behaviour
MaxNestNow == 2         \* the nest clock stops at this tick
MaxNestEvents == 2      \* events returned by one get_events call
MaxNestCmds == 2        \* nest commands handled in one behaviour
MaxNestStops == 1       \* restarts of the nest bot in one behaviour

MaxNow == MaxDay * TicksPerDay

\* the weekly amounts of /set and of a stored state
Amounts == {1, 2}

\* the amounts of /add (positive) and /sub (negative)
Deltas == {1, -1}

(***************************************************************************)
(* BudgetBot                                                               *)
(***************************************************************************)
DaysPerWeek == 7
HistoryKeep == 10
DefaultWeeklyAmount == 1

\* datetime.strftime("%Y-%m-%d"): the date of a clock value, the time of day is dropped
Strftime(t) == t \div TicksPerDay

\* datetime.strptime(s, "%Y-%m-%d"): midnight of the date
Strptime(d) == d * TicksPerDay

\* timedelta.days of a clock difference
TimedeltaDays(delta) == delta \div TicksPerDay

DefaultState(now) ==
    [balance |-> 0,
     weekly_amount |-> DefaultWeeklyAmount,
     last_weekly_update |-> Strftime(now),
     history |-> <<>>]

\* the value of self.state while the process is not running
NoState == [balance |-> 0, weekly_amount |-> 0, last_weekly_update |-> 0, history |-> <<>>]

NoLocals == [last_date |-> 0, weeks |-> 0, next_update |-> 0]

NoEval == [now |-> 0, balance |-> 0, weekly_amount |-> 0, last |-> 0]

NoDone == [at |-> -1, k |-> 0, again |-> FALSE]

load_state(file, now) == IF file = <<>> THEN DefaultState(now) ELSE file[1]

save_state(st) == <<st>>

LastEntries(h) ==
    IF Len(h) > HistoryKeep THEN SubSeq(h, Len(h) - HistoryKeep + 1, Len(h)) ELSE h

\* add_transaction without its save_state: the new self.state
add_transaction(st, amount, comment) ==
    [st EXCEPT !.balance = @ + amount,
               !.history = LastEntries(Append(@, [amount |-> amount, comment |-> comment]))]

\* next_update = last_date + timedelta(days=7)
NextUpdate(last_date) == last_date + DaysPerWeek * TicksPerDay

\* a catch-up that credits one week however many have passed
WeeksPassedSingle(now, last_date) ==
    IF TimedeltaDays(now - last_date) >= DaysPerWeek THEN 1 ELSE 0

\* weeks = (now - last_date).days // 7
WeeksPassed(now, last_date) == TimedeltaDays(now - last_date) \div DaysPerWeek

\* a checkpoint moved one week further than the weeks that have passed
NewLastUpdateAhead(last_date, weeks) == last_date + (weeks + 1) * DaysPerWeek * TicksPerDay

\* new_last_update = last_date + timedelta(weeks=weeks)
NewLastUpdate(last_date, weeks) == last_date + weeks * DaysPerWeek * TicksPerDay

\* the end of the sleep at the bottom of the loop: next_update when it is in the
\* future, else the 3600 s fallback, which ends by the next clock tick
SleepUntil(next_update, now) == IF next_update - now > 0 THEN next_update ELSE now + 1

BudgetUp == bPc \in {"eval", "alert", "sleep"}

\* lines 33-48: the evaluation up to and including add_transaction (with its save)
WeeklyEval ==
    /\ bPc = "eval"
    /\ LET now == bNow
           last_date == Strptime(bMem.last_weekly_update)
           next_update == NextUpdate(last_date)
           weeks == WeeksPassed(now, last_date)
       IN  IF now >= next_update /\ weeks > 0
           THEN /\ bMem' = add_transaction(bMem, weeks * bMem.weekly_amount, "auto")
                /\ bFile' = save_state(bMem')
                /\ bLoc' = [last_date |-> last_date, weeks |-> weeks, next_update |-> next_update]
                /\ bPc' = "mid"
                /\ bWake' = bWake
                /\ gCred' = [gCred EXCEPT !.weeks = @ + weeks]
                /\ gDone' = gDone
                /\ gEval' = [now |-> bNow, balance |-> bMem.balance,
                             weekly_amount |-> bMem.weekly_amount,
                             last |-> bMem.last_weekly_update]
           ELSE /\ bPc' = "sleep"
                /\ bWake' = SleepUntil(next_update, bNow)
                /\ gDone' = IF gDone.at = bNow THEN [gDone EXCEPT !.again = TRUE] ELSE gDone
                /\ UNCHANGED <<bMem, bFile, bLoc, gCred, gEval>>
    /\ UNCHANGED <<bNow, bCmds, bStops>>

\* lines 51-53: the checkpoint is advanced and saved
WeeklyAdvance ==
    /\ bPc = "mid"
    /\ LET new_last_update == NewLastUpdate(bLoc.last_date, bLoc.weeks)
       IN  /\ bMem' = [bMem EXCEPT !.last_weekly_update = Strftime(new_last_update)]
           /\ bLoc' = [bLoc EXCEPT !.next_update = NextUpdate(new_last_update)]
    /\ bFile' = save_state(bMem')
    /\ bPc' = "alert"
    /\ gDone' = [at |-> gEval.now, k |-> bLoc.weeks, again |-> FALSE]
    /\ gEval' = NoEval
    /\ UNCHANGED <<bNow, bWake, bCmds, bStops, gCred>>

\* lines 56-69: the alert has been sent; the loop computes its sleep
WeeklyAlerted ==
    /\ bPc = "alert"
    /\ bPc' = "sleep"
    /\ bWake' = SleepUntil(bLoc.next_update, bNow)
    /\ bLoc' = NoLocals
    /\ UNCHANGED <<bNow, bMem, bFile, bCmds, bStops, gEval, gDone, gCred>>

\* asyncio.sleep returns
WeeklyWake ==
    /\ bPc = "sleep"
    /\ bNow >= bWake
    /\ bPc' = "eval"
    /\ bWake' = 0
    /\ UNCHANGED <<bNow, bMem, bFile, bLoc, bCmds, bStops, gEval, gDone, gCred>>

\* handle_command: /add <amt> and /sub <amt>
BudgetAdd(amt) ==
    /\ BudgetUp
    /\ bCmds < MaxCmds
    /\ bMem' = add_transaction(bMem, amt, "manual")
    /\ bFile' = save_state(bMem')
    /\ bCmds' = bCmds + 1
    /\ UNCHANGED <<bNow, bPc, bLoc, bWake, bStops, gEval, gDone, gCred>>

\* handle_command: /set <amount>
BudgetSet(amt) ==
    /\ BudgetUp
    /\ bCmds < MaxCmds
    /\ bMem' = [bMem EXCEPT !.weekly_amount = amt]
    /\ bFile' = save_state(bMem')
    /\ bCmds' = bCmds + 1
    /\ UNCHANGED <<bNow, bPc, bLoc, bWake, bStops, gEval, gDone, gCred>>

\* the clock advances while the task is suspended or the process is down
BudgetTick ==
    /\ bNow < MaxNow
    /\ \/ bPc \in {"down", "alert"}
       \/ bPc = "sleep" /\ bNow < bWake
    /\ bNow' = bNow + 1
    /\ gDone' = NoDone
    /\ UNCHANGED <<bPc, bMem, bFile, bLoc, bWake, bCmds, bStops, gEval, gCred>>

\* the process stops: everything but the file is lost
BudgetStop ==
    /\ bPc # "down"
    /\ bStops < MaxStops
    /\ bStops' = bStops + 1
    /\ bPc' = "down"
    /\ bMem' = NoState
    /\ bLoc' = NoLocals
    /\ bWake' = 0
    /\ gEval' = NoEval
    /\ gCred' = [gCred EXCEPT !.held = bMem.last_weekly_update]
    /\ UNCHANGED <<bNow, bFile, bCmds, gDone>>

\* BudgetBot() and the start of weekly_task
BudgetStart ==
    /\ bPc = "down"
    /\ bMem' = load_state(bFile, bNow)
    /\ bPc' = "eval"
    /\ gCred' = [gCred EXCEPT !.held = -1]
    /\ UNCHANGED <<bNow, bFile, bLoc, bWake, bCmds, bStops, gEval, gDone>>

BudgetInit ==
    /\ bNow \in 0..TicksPerDay
    /\ bFile \in {<<>>} \cup
          {<<[balance |-> 0, weekly_amount |-> a, last_weekly_update |-> 0, history |-> <<>>]>> :
              a \in Amounts}
    /\ bMem = load_state(bFile, bNow)
    /\ bPc = "eval"
    /\ bLoc = NoLocals
    /\ bWake = 0
    /\ bCmds = 0
    /\ bStops = 0
    /\ gEval = NoEval
    /\ gDone = NoDone
    /\ gCred = [t0 |-> bMem.last_weekly_update, weeks |-> 0, held |-> -1]

\* the budget bot before it is started (in the specifications of the other bots)
BudgetIdle ==
    /\ bNow = 0
    /\ bFile = <<>>
    /\ bMem = NoState
    /\ bPc = "down"
    /\ bLoc = NoLocals
    /\ bWake = 0
    /\ bCmds = 0
    /\ bStops = 0
    /\ gEval = NoEval
    /\ gDone = NoDone
    /\ gCred = [t0 |-> 0, weeks |-> 0, held |-> -1]

NextBudget ==
    \/ WeeklyEval /\ UNCHANGED notBudget
    \/ WeeklyAdvance /\ UNCHANGED notBudget
    \/ WeeklyAlerted /\ UNCHANGED notBudget
    \/ WeeklyWake /\ UNCHANGED notBudget
    \/ \E amt \in Deltas : BudgetAdd(amt) /\ UNCHANGED notBudget
    \/ \E amt \in Amounts : BudgetSet(amt) /\ UNCHANGED notBudget
    \/ BudgetTick /\ UNCHANGED notBudget
    \/ BudgetStop /\ UNCHANGED notBudget
    \/ BudgetStart /\ UNCHANGED notBudget


(***************************************************************************)
(* BinBot                                                                  *)
(***************************************************************************)
HoursPerDay == 24
DaysPerYear == 365
NightHour == 18
MorningHour == 7
RefreshHour == 9
WrapDays == 2
RetryHours == 1
BinStartDay == 361      \* the bin scheduler is started on 28 December of year 0

BinTypes == <<"Refuse", "Food">>

\* a date text of the council site that strptime rejects
BadDate == -1

\* now.year
YearOf(t) == t \div (DaysPerYear * HoursPerDay)

\* the date text the site shows for the day of clock value t: day and month, no year
DateText(t) == (t \div HoursPerDay) % DaysPerYear

\* datetime.strptime(f"{clean_date} {year}", "%A %d %B %Y"): midnight of that date
ParseDate(date, year) == (year * DaysPerYear + date) * HoursPerDay

\* lines 127-131: the date of a record, moved to next year when it lies more than
\* two days in the past
RecordDate(date, now) ==
    LET dt == ParseDate(date, YearOf(now))
    IN  IF dt < now - WrapDays * HoursPerDay THEN ParseDate(date, YearOf(now) + 1) ELSE dt

\* lines 135-136: parsed_dates.sort(); next_date = parsed_dates[0]
NextDate(data, now) ==
    LET ds == {RecordDate(data[i].date, now) : i \in DOMAIN data}
    IN  CHOOSE d \in ds : \A e \in ds : d <= e

\* lines 139-140: the bins due on next_date
DueTypes(data, now) ==
    {data[i].type : i \in {j \in DOMAIN data : RecordDate(data[j].date, now) = NextDate(data, now)}}

Unparseable(data) == \E i \in DOMAIN data : data[i].date = BadDate

MilestonesSwapped == <<"morning", "night", "refresh">>

\* lines 142-168: the milestones in the order the cycle handles them
Milestones == <<"night", "morning", "refresh">>

\* lines 144-145, 155, 164: the target time of a milestone
Target(kind, next_date) ==
    CASE kind = "night" -> next_date - HoursPerDay + NightHour
      [] kind = "morning" -> next_date + MorningHour
      [] kind = "refresh" -> next_date + HoursPerDay + RefreshHour

\* a scheduler that never skips a milestone whose target has passed
NextPendingAll(i, now, next_date) == i

\* lines 147, 156, 165: the first milestone from the i-th on whose target is still
\* in the future (Len(Milestones) + 1 when there is none)
RECURSIVE NextPending(_, _, _)
NextPending(i, now, next_date) ==
    IF i > Len(Milestones) THEN i
    ELSE IF now < Target(Milestones[i], next_date) THEN i
    ELSE NextPending(i + 1, now, next_date)

NoBinLocals == [now |-> 0, next_date |-> 0, idx |-> 0]

NoCycle == [ahead |-> {}, fired |-> <<>>, rushed |-> 0]

\* what a fetch of the council site can return at clock value now: None (<<>>), or
\* one collection, or two of different dates, dated today or up to FetchHorizon
\* days ahead, or a collection whose date text does not parse
FetchDates(now) == {DateText(now + d * HoursPerDay) : d \in 0..FetchHorizon}

FetchResults(now) ==
    {<<>>}
    \cup {<<[type |-> BinTypes[1], date |-> d]>> : d \in FetchDates(now) \cup {BadDate}}
    \cup {<<[type |-> BinTypes[1], date |-> p[1]], [type |-> BinTypes[2], date |-> p[2]]>> :
             p \in {q \in FetchDates(now) \X FetchDates(now) : q[1] # q[2]}}

MaxBinNow == (BinStartDay + MaxBinDays) * HoursPerDay

\* the cycle from the i-th milestone on, with local now and next_date: sleep
\* until the next milestone that is still ahead, or go on to the refresh fetch
Proceed(i, now, next_date) ==
    LET j == NextPending(i, now, next_date)
    IN  /\ nLoc' = [now |-> now, next_date |-> next_date, idx |-> j]
        /\ IF j <= Len(Milestones)
           THEN /\ nPc' = "sleep"
                /\ nWake' = Target(Milestones[j], next_date)
           ELSE /\ nPc' = "fetch2"
                /\ nWake' = 0

\* a cycle that goes back to the top of the loop at once when there is no data
CycleNoSleep(data) ==
    IF data = <<>> \/ Unparseable(data)
    THEN /\ nPc' = "start"
         /\ nWake' = 0
         /\ nLoc' = NoBinLocals
         /\ gCycle' = NoCycle
    ELSE /\ Proceed(1, nNow, NextDate(data, nNow))
         /\ gCycle' = [ahead |-> {k \in {"night", "morning", "refresh"} :
                                        nNow < Target(k, NextDate(data, nNow))},
                        fired |-> <<>>,
                        rushed |-> IF nPc' # "fetch2" THEN 0
                                   ELSE IF gCycle.rushed < 2 THEN gCycle.rushed + 1
                                   ELSE gCycle.rushed]

\* lines 117-140: with data in hand, sleep an hour when there is none or when a
\* date does not parse, else start the milestone sequence
Cycle(data) ==
    IF data = <<>> \/ Unparseable(data)
    THEN /\ nPc' = "retry"
         /\ nWake' = nNow + RetryHours
         /\ nLoc' = NoBinLocals
         /\ gCycle' = NoCycle
    ELSE /\ Proceed(1, nNow, NextDate(data, nNow))
         /\ gCycle' = [ahead |-> {k \in {"night", "morning", "refresh"} :
                                        nNow < Target(k, NextDate(data, nNow))},
                        fired |-> <<>>,
                        rushed |-> IF nPc' # "fetch2" THEN 0
                                   ELSE IF gCycle.rushed < 2 THEN gCycle.rushed + 1
                                   ELSE gCycle.rushed]

\* lines 111-114: the top of the loop
BinStart ==
    /\ nPc = "start"
    /\ IF nCache = <<>>
       THEN /\ nPc' = "fetch1"
            /\ UNCHANGED <<nLoc, nWake, gCycle>>
       ELSE Cycle(nCache)
    /\ UNCHANGED <<nNow, nCache, nStops, gSent, gDouble>>

\* lines 114-115: the first-run fetch returns
BinFirstFetch(data) ==
    /\ nPc = "fetch1"
    /\ nCache' = IF data # <<>> THEN data ELSE nCache
    /\ Cycle(data)
    /\ UNCHANGED <<nNow, nStops, gSent, gDouble>>

\* asyncio.sleep returns: lines 150-151, 159-160, 168-172, and the 1-hour retries
BinWake ==
    /\ nPc \in {"sleep", "retry"}
    /\ nNow >= nWake
    /\ IF nPc = "retry"
       THEN /\ nPc' = "start"
            /\ UNCHANGED <<gSent, gDouble, gCycle>>
       ELSE LET kind == Milestones[nLoc.idx]
            IN  IF kind = "refresh"
                THEN /\ nPc' = "fetch2"
                     /\ UNCHANGED <<gSent, gDouble, gCycle>>
                ELSE /\ nPc' = "alert"
                     /\ gCycle' = [gCycle EXCEPT !.fired = Append(@, kind)]
                     /\ gSent' = gSent \cup {<<nLoc.next_date, kind>>}
                     /\ gDouble' = (gDouble \/ <<nLoc.next_date, kind>> \in gSent)
    /\ nWake' = 0
    /\ UNCHANGED <<nNow, nCache, nLoc, nStops>>

\* lines 151-152, 160-161: the reminder has been sent, now = datetime.now()
BinAlerted ==
    /\ nPc = "alert"
    /\ Proceed(nLoc.idx + 1, nNow, nLoc.next_date)
    /\ UNCHANGED <<nNow, nCache, nStops, gSent, gDouble, gCycle>>

\* lines 172-173: the refresh fetch returns
BinRefreshed(data) ==
    /\ nPc = "fetch2"
    /\ nCache' = IF data # <<>> THEN data ELSE nCache
    /\ nPc' = "start"
    /\ nLoc' = NoBinLocals
    /\ UNCHANGED <<nNow, nWake, nStops, gSent, gDouble, gCycle>>

\* handle_command: /bins, where fetched is what fetch_bin_data returns when the
\* cache is empty (with a cache, no fetch is made)
BinsCommand(fetched) ==
    /\ nPc \in {"fetch1", "retry", "sleep", "alert", "fetch2"}
    /\ LET data == IF nCache # <<>> THEN nCache ELSE fetched
       IN  /\ data # <<>>
           /\ nCache' = data
    /\ UNCHANGED <<nNow, nPc, nLoc, nWake, nStops, gSent, gDouble, gCycle>>

\* the clock advances by an hour while the scheduler sleeps or the process is
\* down (a fetch or a send takes less than the hour the clock resolves)
BinTick ==
    /\ nNow < MaxBinNow
    /\ \/ nPc = "down"
       \/ nPc \in {"sleep", "retry"} /\ nNow < nWake
    /\ nNow' = nNow + 1
    /\ UNCHANGED <<nPc, nCache, nLoc, nWake, nStops, gSent, gDouble, gCycle>>

BinStop ==
    /\ nPc # "down"
    /\ nStops < MaxBinStops
    /\ nStops' = nStops + 1
    /\ nPc' = "down"
    /\ nLoc' = NoBinLocals
    /\ nWake' = 0
    /\ gCycle' = NoCycle
    /\ UNCHANGED <<nNow, nCache, gSent, gDouble>>

BinRestart ==
    /\ nPc = "down"
    /\ nPc' = "start"
    /\ UNCHANGED <<nNow, nCache, nLoc, nWake, nStops, gSent, gDouble, gCycle>>

BinInit ==
    /\ nNow = BinStartDay * HoursPerDay + MorningHour + 1
    /\ nCache \in FetchResults(nNow)
    /\ nPc = "start"
    /\ nLoc = NoBinLocals
    /\ nWake = 0
    /\ nStops = 0
    /\ gSent = {}
    /\ gDouble = FALSE
    /\ gCycle = NoCycle

\* the bin scheduler before it is started (in the specifications of the other bots)
BinIdle ==
    /\ nNow = 0
    /\ nCache = <<>>
    /\ nPc = "down"
    /\ nLoc = NoBinLocals
    /\ nWake = 0
    /\ nStops = 0
    /\ gSent = {}
    /\ gDouble = FALSE
    /\ gCycle = NoCycle

NextBin ==
    \/ BinStart /\ UNCHANGED notBin
    \/ \E data \in FetchResults(nNow) : BinFirstFetch(data) /\ UNCHANGED notBin
    \/ BinWake /\ UNCHANGED notBin
    \/ BinAlerted /\ UNCHANGED notBin
    \/ \E data \in FetchResults(nNow) : BinRefreshed(data) /\ UNCHANGED notBin
    \/ \E data \in (IF nCache = <<>> THEN FetchResults(nNow) ELSE {<<>>}) :
            BinsCommand(data) /\ UNCHANGED notBin
    \/ BinTick /\ UNCHANGED notBin
    \/ BinStop /\ UNCHANGED notBin
    \/ BinRestart /\ UNCHANGED notBin

(***************************************************************************)
(* TrainBot                                                                *)
(***************************************************************************)
Stations == {"NEM", "WAT"}

DefaultCrs == "NEM"

\* the scheduled departure times a watch can name
Times == {"08:15", "08:45"}

\* the (etd, platform) a departure board can show for a service
BoardEntries ==
    {[etd |-> "On time", plat |-> "TBC"],
     [etd |-> "On time", plat |-> "4"],
     [etd |-> "Departed", plat |-> "4"]}

\* no service with that std on the board
NoService == [etd |-> "", plat |-> ""]

\* fetch_trains: what a board can be, a service or none for every std; the board
\* with no service at all is also what a failed fetch returns ([])
Boards == [Times -> BoardEntries \cup {NoService}]

NoBoard == [t \in Times |-> NoService]

\* lines 159-160: the fingerprint of a watch whose train /watch did not find
UnknownEntry == [etd |-> "Unknown", plat |-> "TBC"]

NoFail == [keys |-> {}, lost |-> {}, spared |-> {}]

\* a service with no etd element: findtext returns None (line 66)
NoEtd == "<None>"

MalformedEntry == [etd |-> NoEtd, plat |-> "TBC"]

\* the boards that list a service with no etd
MalformedBoards == [Times -> BoardEntries \cup {NoService, MalformedEntry}] \ Boards

NoTrainLocals ==
    [to_remove |-> <<>>, stations |-> {}, station |-> "", trains |-> NoBoard,
     items |-> <<>>, idx |-> 0, cur_status |-> ""]

\* the keys of the dict
Keys(subs) == {subs[i].key : i \in DOMAIN subs}

\* self.subscriptions[key] = value: in place when the key is there, else at the end
SetItem(subs, w) ==
    IF w.key \in Keys(subs)
    THEN [i \in DOMAIN subs |-> IF subs[i].key = w.key THEN w ELSE subs[i]]
    ELSE Append(subs, w)

\* a removal that pops nothing
RemoveNone(subs, ks) == subs

\* self.subscriptions.pop(t, None) for every t of a list
RemoveKeys(subs, ks) ==
    LET gone == {ks[i] : i \in DOMAIN ks}
        Keep(w) == w.key \notin gone
    IN  SelectSeq(subs, Keep)

\* a diff that looks at the status alone
ChangedStatusOnly(cur_status, cur_plat, last_status, last_plat) == cur_status # last_status

\* line 104: cur_status != last_status or cur_plat != last_plat
Changed(cur_status, cur_plat, last_status, last_plat) ==
    cur_status # last_status \/ cur_plat # last_plat

\* a monitor for which no status is terminal
IsDepartedNever(status) == FALSE

\* lines 107: "Departed" in cur_status
IsDeparted(status) == status \in {"Departed"}

\* a monitor that does not mark a watch whose train is not on the board
MarkAbsentNot(to_remove, key) == to_remove

\* lines 108-109: to_remove.append(time_t) for a watch whose train is not found
MarkAbsent(to_remove, key) == Append(to_remove, key)

\* a loop over the stations that comes back to a station it has visited
StationsLeftAll(stations, s) == stations

\* line 95, for station in stations: the stations still to visit once s is taken
StationsLeft(stations, s) == stations \ {s}

\* no tick in progress: the stations watched at its start, the fetches made
NoTick == [start |-> {}, count |-> [s \in Stations |-> 0]]

\* the monitor is suspended: in its sleep, at a fetch, or at an alert send
MonitorSuspended == tPc \in {"sleep", "fetch", "alert"}

\* lines 92-97: a tick starts: the stations of the watches, and the first fetch
TickStart ==
    /\ tPc = "sleep"
    /\ LET stations == {tSubs[i].origin : i \in DOMAIN tSubs}
       IN  IF stations = {}
           THEN UNCHANGED <<tPc, tLoc>>
           ELSE \E s \in stations :
                   /\ tLoc' = [NoTrainLocals EXCEPT !.stations = StationsLeft(stations, s),
                                                    !.station = s]
                   /\ tPc' = "fetch"
    /\ gEmit' = ""
    /\ gAbsent' = {}
    /\ gFresh' = {}
    /\ gLost' = {}
    /\ gTick' = IF tPc' = "fetch"
                THEN [start |-> {tSubs[i].origin : i \in DOMAIN tSubs},
                      count |-> [NoTick.count EXCEPT ![tLoc'.station] = 1]]
                ELSE NoTick
    /\ gReply' = ""
    /\ UNCHANGED <<tSubs, tCtx, tCmds, gUnwatched, gRetired>>
    /\ gFail' = NoFail

\* lines 97-98: the fetch returns; the loop takes list(self.subscriptions.items()).
\* The board lists the services some watch of the station names; the loop never
\* looks at another one.
FetchReturns(board, failed) ==
    /\ tPc = "fetch"
    /\ \A t \in Times :
          board[t] # NoService =>
              \E i \in DOMAIN tSubs : tSubs[i].key = t /\ tSubs[i].origin = tLoc.station
    /\ tLoc' = [tLoc EXCEPT !.trains = board, !.items = tSubs, !.idx = 1]
    /\ tPc' = "iter"
    /\ gEmit' = ""
    /\ UNCHANGED <<tSubs, tCtx, tCmds, gUnwatched, gAbsent, gRetired, gFresh>>
    /\ gLost' = {}
    /\ UNCHANGED gTick
    /\ gReply' = ""
    /\ gFail' = [keys |-> IF failed
                            THEN gFail.keys \cup
                                 {tSubs[k].key : k \in {j \in DOMAIN tSubs :
                                                           tSubs[j].origin = tLoc.station}}
                            ELSE gFail.keys,
                  lost |-> {}, spared |-> {}]

\* line 97: the fetch returns a board
FetchDone(board) == FetchReturns(board, FALSE)

\* line 107 with cur_status None: "Departed" in None raises TypeError, at once
\* for an unchanged watch and after the alert send for a changed one
RaisesAtItem ==
    \/ /\ tPc = "iter"
       /\ tLoc.idx <= Len(tLoc.items)
       /\ LET w == tLoc.items[tLoc.idx]
              match == tLoc.trains[w.key]
          IN  /\ w.origin = tLoc.station
              /\ match # NoService
              /\ match.etd = NoEtd
              /\ ~Changed(match.etd, match.plat, w.status, w.plat)
    \/ tPc = "alert" /\ tLoc.cur_status = NoEtd

\* lines 98-109: one item of the list, up to the alert send or the next item
ProcessItem ==
    /\ tPc = "iter"
    /\ ~RaisesAtItem
    /\ tLoc.idx <= Len(tLoc.items)
    /\ LET w == tLoc.items[tLoc.idx]
           match == tLoc.trains[w.key]
       IN  IF w.origin # tLoc.station
           THEN /\ tLoc' = [tLoc EXCEPT !.idx = @ + 1]
                /\ gEmit' = ""
                /\ UNCHANGED <<tSubs, tPc, gAbsent, gFresh>>
           ELSE IF match # NoService
           THEN IF Changed(match.etd, match.plat, w.status, w.plat)
                THEN /\ tSubs' = SetItem(tSubs, [key |-> w.key, origin |-> tLoc.station,
                                                 status |-> match.etd, plat |-> match.plat,
                                                 dest |-> w.dest])
                     /\ tLoc' = [tLoc EXCEPT !.cur_status = match.etd]
                     /\ tPc' = "alert"
                     /\ gEmit' = w.key
                     /\ UNCHANGED <<gAbsent, gFresh>>
                ELSE /\ tLoc' = [tLoc EXCEPT
                                   !.to_remove = IF IsDeparted(match.etd)
                                                 THEN Append(@, w.key) ELSE @,
                                   !.idx = @ + 1]
                     /\ gEmit' = ""
                     /\ gFresh' = IF IsDeparted(match.etd) THEN gFresh \ {w.key} ELSE gFresh
                     /\ UNCHANGED <<tSubs, tPc, gAbsent>>
           ELSE /\ tLoc' = [tLoc EXCEPT !.to_remove = MarkAbsent(@, w.key), !.idx = @ + 1]
                /\ gEmit' = ""
                /\ gAbsent' = gAbsent \cup {w.key}
                /\ gFresh' = gFresh \ {w.key}
                /\ UNCHANGED <<tSubs, tPc>>
    /\ UNCHANGED <<tCtx, tCmds, gUnwatched, gRetired>>
    /\ gLost' = {}
    /\ UNCHANGED gTick
    /\ gReply' = ""
    /\ gFail' = [gFail EXCEPT !.lost = {}, !.spared = {}]

\* lines 106-107: the alert has been sent
AlertDone ==
    /\ tPc = "alert"
    /\ ~RaisesAtItem
    /\ LET w == tLoc.items[tLoc.idx]
       IN  /\ tLoc' = [tLoc EXCEPT
                         !.to_remove = IF IsDeparted(tLoc.cur_status)
                                       THEN Append(@, w.key) ELSE @,
                         !.idx = @ + 1,
                         !.cur_status = ""]
           /\ gFresh' = IF IsDeparted(tLoc.cur_status) THEN gFresh \ {w.key} ELSE gFresh
    /\ tPc' = "iter"
    /\ gEmit' = ""
    /\ UNCHANGED <<tSubs, tCtx, tCmds, gUnwatched, gAbsent, gRetired>>
    /\ gLost' = {}
    /\ UNCHANGED gTick
    /\ gReply' = ""
    /\ gFail' = [gFail EXCEPT !.lost = {}, !.spared = {}]

\* lines 95-97: the items of a station are done and another station is fetched
NextStation ==
    /\ tPc = "iter"
    /\ tLoc.idx > Len(tLoc.items)
    /\ tLoc.stations # {}
    /\ \E s \in tLoc.stations :
          tLoc' = [tLoc EXCEPT !.stations = StationsLeft(@, s), !.station = s,
                               !.trains = NoBoard, !.items = <<>>, !.idx = 0]
    /\ tPc' = "fetch"
    /\ gEmit' = ""
    /\ UNCHANGED <<tSubs, tCtx, tCmds, gUnwatched, gAbsent, gRetired, gFresh>>
    /\ gLost' = {}
    /\ gTick' = [gTick EXCEPT !.count[tLoc'.station] = IF @ < 2 THEN @ + 1 ELSE @]
    /\ gReply' = ""
    /\ gFail' = [gFail EXCEPT !.lost = {}, !.spared = {}]

\* lines 110-113: the last station is done: the marked keys are popped, then sleep
TickEnd ==
    /\ tPc = "iter"
    /\ tLoc.idx > Len(tLoc.items)
    /\ tLoc.stations = {}
    /\ tSubs' = RemoveKeys(tSubs, tLoc.to_remove)
    /\ tLoc' = NoTrainLocals
    /\ tPc' = "sleep"
    /\ gEmit' = ""
    /\ gRetired' = gRetired \cup gAbsent
    /\ gAbsent' = {}
    /\ gLost' = gFresh \ Keys(tSubs')
    /\ gTick' = NoTick
    /\ gReply' = ""
    /\ gFresh' = {}
    /\ UNCHANGED <<tCtx, tCmds, gUnwatched>>
    /\ gFail' = [keys |-> {}, lost |-> gFail.keys \ Keys(tSubs'), spared |-> {}]

\* handle_command: /trains <origin> (lines 130-139)
TrainsCommand(origin) ==
    /\ MonitorSuspended
    /\ tCtx' = [crs |-> origin, filter |-> "none"]
    /\ gEmit' = ""
    /\ UNCHANGED <<tSubs, tPc, tLoc, tCmds, gUnwatched, gAbsent, gRetired, gFresh>>
    /\ gLost' = {}
    /\ UNCHANGED gTick
    /\ gReply' = ""
    /\ gFail' = [gFail EXCEPT !.lost = {}, !.spared = {}]

\* handle_command: /watch <t> (lines 150-169), where found is what the command's
\* own fetch shows for <t>
WatchCommand(t, found) ==
    /\ MonitorSuspended
    /\ tCmds < MaxTrainCmds
    /\ tCtx.filter # "unset"
    /\ LET e == IF found # NoService THEN found ELSE UnknownEntry
       IN  tSubs' = SetItem(tSubs, [key |-> t, origin |-> tCtx.crs, status |-> e.etd,
                                    plat |-> e.plat, dest |-> tCtx.filter])
    /\ tCmds' = tCmds + 1
    /\ gEmit' = ""
    /\ gUnwatched' = gUnwatched \ {t}
    /\ gAbsent' = gAbsent \ {t}
    /\ gRetired' = gRetired \ {t}
    /\ gFresh' = IF tPc \in {"fetch", "alert"} THEN gFresh \cup {t} ELSE gFresh
    /\ UNCHANGED <<tCtx, tPc, tLoc>>
    /\ gLost' = {}
    /\ UNCHANGED gTick
    /\ gReply' = "watching"
    /\ gFail' = [keys |-> gFail.keys \ {t}, lost |-> {}, spared |-> {}]

\* handle_command: /watch <t> before any /trains (line 152): __init__ (lines
\* 13-20) sets no current_context_filter, so reading it raises AttributeError
WatchRaises ==
    /\ MonitorSuspended
    /\ tCmds < MaxTrainCmds
    /\ tCtx.filter = "unset"
    /\ tCmds' = tCmds + 1
    /\ gEmit' = ""
    /\ gReply' = "raised"
    /\ gLost' = {}
    /\ gFail' = [gFail EXCEPT !.lost = {}, !.spared = {}]
    /\ UNCHANGED <<tSubs, tCtx, tPc, tLoc, gUnwatched, gAbsent, gRetired, gFresh, gTick>>

\* handle_command: /unwatch <t> (lines 180-185)
UnwatchCommand(t) ==
    /\ MonitorSuspended
    /\ tCmds < MaxTrainCmds
    /\ tSubs' = RemoveKeys(tSubs, <<t>>)
    /\ tCmds' = tCmds + 1
    /\ gEmit' = ""
    /\ gUnwatched' = gUnwatched \cup {t}
    /\ gFresh' = gFresh \ {t}
    /\ UNCHANGED <<tCtx, tPc, tLoc, gAbsent, gRetired>>
    /\ gLost' = {}
    /\ UNCHANGED gTick
    /\ gReply' = ""
    /\ gFail' = [keys |-> gFail.keys \ {t}, lost |-> {}, spared |-> {}]

\* handle_command: /unwatch (lines 186-187)
UnwatchAll ==
    /\ MonitorSuspended
    /\ tCmds < MaxTrainCmds
    /\ tSubs' = <<>>
    /\ tCmds' = tCmds + 1
    /\ gEmit' = ""
    /\ gFresh' = {}
    /\ UNCHANGED <<tCtx, tPc, tLoc, gUnwatched, gAbsent, gRetired>>
    /\ gLost' = {}
    /\ UNCHANGED gTick
    /\ gReply' = ""
    /\ gFail' = NoFail

\* lines 61, 84-86: the fetch fails (a status other than 200, or an exception):
\* fetch_trains returns []
FetchFails == FetchReturns(NoBoard, TRUE)

\* lines 111-113: the tick raises: the except logs it, line 110 is not reached,
\* and the loop sleeps
TickRaises ==
    /\ RaisesAtItem
    /\ tPc' = "sleep"
    /\ tLoc' = NoTrainLocals
    /\ gEmit' = ""
    /\ gAbsent' = {}
    /\ gFresh' = {}
    /\ gLost' = {}
    /\ gTick' = NoTick
    /\ gReply' = ""
    /\ gFail' = [keys |-> {}, lost |-> {}, spared |-> {tLoc.to_remove[i] : i \in DOMAIN tLoc.to_remove}]
    /\ UNCHANGED <<tSubs, tCtx, tCmds, gUnwatched, gRetired>>

TrainInit ==
    /\ tSubs = <<>>
    /\ tCtx = [crs |-> DefaultCrs, filter |-> "unset"]
    /\ tPc = "sleep"
    /\ tLoc = NoTrainLocals
    /\ tCmds = 0
    /\ gEmit = ""
    /\ gUnwatched = {}
    /\ gAbsent = {}
    /\ gRetired = {}
    /\ gFresh = {}
    /\ gLost = {}
    /\ gFail = NoFail
    /\ gTick = NoTick
    /\ gReply = ""

NextTrain ==
    \/ TickStart /\ UNCHANGED notTrain
    \/ \E board \in Boards : FetchDone(board) /\ UNCHANGED notTrain
    \/ ProcessItem /\ UNCHANGED notTrain
    \/ AlertDone /\ UNCHANGED notTrain
    \/ NextStation /\ UNCHANGED notTrain
    \/ TickEnd /\ UNCHANGED notTrain
    \/ \E origin \in Stations : TrainsCommand(origin) /\ UNCHANGED notTrain
    \/ \E t \in Times, found \in BoardEntries \cup {NoService} :
            WatchCommand(t, found) /\ UNCHANGED notTrain
    \/ \E t \in Times : UnwatchCommand(t) /\ UNCHANGED notTrain
    \/ UnwatchAll /\ UNCHANGED notTrain
    \/ WatchRaises /\ UNCHANGED notTrain

(***************************************************************************)
(* The command router                                                      *)
(***************************************************************************)
\* the environment: five internal ids, all set and all different, and the
\* recipient of each
BUDGET_INTERNAL_ID == "budget-group"

TRAIN_INTERNAL_ID == "train-group"

BIN_INTERNAL_ID == "bin-group"

TESTING_INTERNAL_ID == "testing-group"

NEST_INTERNAL_ID == "nest-group"

\* lines 25-31
BOT_ROUTING ==
    (BUDGET_INTERNAL_ID :> "budget-recipient") @@
    (TRAIN_INTERNAL_ID :> "train-recipient") @@
    (BIN_INTERNAL_ID :> "bin-recipient") @@
    (TESTING_INTERNAL_ID :> "testing-recipient") @@
    (NEST_INTERNAL_ID :> "nest-recipient")

\* a sender that is in no table
StrangerId == "+440000"

InternalIds == DOMAIN BOT_ROUTING \cup {StrangerId}

\* message texts, character by character; <<>> is a missing or empty text
Texts == {<<"/", "w">>, <<"h", "i">>, <<>>}

\* an envelope with neither a dataMessage nor a sent syncMessage
NoTarget == [target |-> FALSE, id |-> StrangerId, text |-> <<>>]

Messages == {[target |-> TRUE, id |-> i, text |-> x] : i \in InternalIds, x \in Texts}
            \cup {NoTarget}

\* what one poll can return: up to n messages
Batches(n) == UNION {[1..k -> Messages] : k \in 0..n}

\* line 84: incoming_text and incoming_text.startswith("/")
IsCommand(msg) == msg.target /\ Len(msg.text) > 0 /\ msg.text[1] = "/"

\* a chain that hands the testing group to the train bot
RouteTesting(internal_id) ==
    IF internal_id = BUDGET_INTERNAL_ID THEN "budget_bot"
    ELSE IF internal_id = TESTING_INTERNAL_ID THEN "train_bot"
    ELSE IF internal_id = BIN_INTERNAL_ID THEN "bin_bot"
    ELSE IF internal_id = NEST_INTERNAL_ID THEN "nest_bot"
    ELSE "ignored"

\* lines 88-114: the if/elif chain
Route(internal_id) ==
    IF internal_id = BUDGET_INTERNAL_ID THEN "budget_bot"
    ELSE IF internal_id = TRAIN_INTERNAL_ID THEN "train_bot"
    ELSE IF internal_id = BIN_INTERNAL_ID THEN "bin_bot"
    ELSE IF internal_id = NEST_INTERNAL_ID THEN "nest_bot"
    ELSE "ignored"

\* lines 89, 95, 100, 104: handle_command(incoming_text)
HandlerArg(incoming_text) == incoming_text

\* what a handle_command can return: None, an empty string, a text, and for the
\* nest bot a ("FILE", text, path) tuple
Replies(bot) ==
    {"None", "", "text"} \cup (IF bot = "nest_bot" THEN {"FILE"} ELSE {})

\* lines 90, 96, 101, 105: if reply
Truthy(reply) == reply \notin {"None", ""}

\* lines 62-67: a poll returns a batch (an empty one for a status other than 200
\* or no data)
Poll ==
    /\ rPc = "poll"
    /\ \E batch \in Batches(MaxBatch) : rBatch' = batch
    /\ rIdx' = 1
    /\ rPc' = "msg"
    /\ UNCHANGED <<rReply, gCalls, gSends>>

\* lines 68-114: one message, up to the call of its handler or to the next one
Dispatch ==
    /\ rPc = "msg"
    /\ rIdx <= Len(rBatch)
    /\ LET msg == rBatch[rIdx]
           bot == Route(msg.id)
       IN  IF IsCommand(msg) /\ bot # "ignored"
           THEN /\ rPc' = "handle"
                /\ gCalls' = Append(gCalls, [idx |-> rIdx, bot |-> bot,
                                             arg |-> HandlerArg(msg.text),
                                             reply |-> "pending"])
                /\ UNCHANGED rIdx
           ELSE /\ rIdx' = rIdx + 1
                /\ UNCHANGED <<rPc, gCalls>>
    /\ UNCHANGED <<rBatch, rReply, gSends>>

\* the handler returns
HandlerReturns(reply) ==
    /\ rPc = "handle"
    /\ reply \in Replies(gCalls[Len(gCalls)].bot)
    /\ rReply' = reply
    /\ gCalls' = [gCalls EXCEPT ![Len(gCalls)].reply = reply]
    /\ IF Truthy(reply)
       THEN rPc' = "send" /\ UNCHANGED rIdx
       ELSE rPc' = "msg" /\ rIdx' = rIdx + 1
    /\ UNCHANGED <<rBatch, gSends>>

\* lines 115-118: the handler raises: the batch is left and the loop sleeps
HandlerRaises ==
    /\ rPc = "handle"
    /\ gCalls' = [gCalls EXCEPT ![Len(gCalls)].reply = "raised"]
    /\ rPc' = "sleep"
    /\ UNCHANGED <<rBatch, rIdx, rReply, gSends>>

\* send_signal, lines 35-55: the post is made; its outcome is logged at most
SendDone ==
    /\ rPc = "send"
    /\ gSends' = Append(gSends, [idx |-> rIdx, to |-> BOT_ROUTING[rBatch[rIdx].id],
                                 payload |-> rReply])
    /\ rIdx' = rIdx + 1
    /\ rPc' = "msg"
    /\ UNCHANGED <<rBatch, rReply, gCalls>>

\* send_signal, lines 43-44: the attachment cannot be opened: the error leaves
\* send_signal and the batch
SendRaises ==
    /\ rPc = "send"
    /\ rReply = "FILE"
    /\ rPc' = "sleep"
    /\ UNCHANGED <<rBatch, rIdx, rReply, gCalls, gSends>>

\* line 119: the batch is done and the loop sleeps POLL_INTERVAL
BatchDone ==
    /\ rPc = "msg"
    /\ rIdx > Len(rBatch)
    /\ rPc' = "sleep"
    /\ UNCHANGED <<rBatch, rIdx, rReply, gCalls, gSends>>

\* lines 119, 61: the sleep is over; nothing of the last iteration is used again
PollAgain ==
    /\ rPc = "sleep"
    /\ rPc' = "poll"
    /\ rBatch' = <<>>
    /\ rIdx' = 1
    /\ rReply' = "None"
    /\ gCalls' = <<>>
    /\ gSends' = <<>>

RouterInit ==
    /\ rPc = "poll"
    /\ rBatch = <<>>
    /\ rIdx = 1
    /\ rReply = "None"
    /\ gCalls = <<>>
    /\ gSends = <<>>

NextRouter ==
    \/ Poll /\ UNCHANGED notRouter
    \/ Dispatch /\ UNCHANGED notRouter
    \/ \E reply \in Replies("nest_bot") : HandlerReturns(reply) /\ UNCHANGED notRouter
    \/ HandlerRaises /\ UNCHANGED notRouter
    \/ SendDone /\ UNCHANGED notRouter
    \/ SendRaises /\ UNCHANGED notRouter
    \/ BatchDone /\ UNCHANGED notRouter
    \/ PollAgain /\ UNCHANGED notRouter

(***************************************************************************)
(* ReminderBot                                                             *)
(***************************************************************************)
\* the times a /remind can name (dateparser.parse) and the tasks
RemindTimes == {1, 2}

RemindTasks == {"a", "b"}

Reminders == [time : RemindTimes, task : RemindTasks]

NoRemindLocals == [due |-> <<>>, remaining |-> <<>>, idx |-> 0]

RangeOf(seq) == {seq[i] : i \in DOMAIN seq}

\* lines 93-97: the reminders whose time is at or before now, in list order
DueOf(reminders, now) ==
    LET IsDue(r) == r.time <= now
    IN  SelectSeq(reminders, IsDue)

\* lines 93-97: the others, in list order
RemainingOf(reminders, now) ==
    LET NotDue(r) == r.time > now
    IN  SelectSeq(reminders, NotDue)

\* sorted(self.reminders, key=lambda x: x['time']): stable, by time
RECURSIVE SortedByTime(_)
SortedByTime(reminders) ==
    IF reminders = <<>> THEN <<>>
    ELSE LET least == CHOOSE i \in DOMAIN reminders :
                         /\ \A j \in DOMAIN reminders : reminders[i].time <= reminders[j].time
                         /\ \A j \in 1..(i - 1) : reminders[j].time # reminders[i].time
             rest == [k \in 1..(Len(reminders) - 1) |->
                         IF k < least THEN reminders[k] ELSE reminders[k + 1]]
         IN  <<reminders[least]>> \o SortedByTime(rest)

\* list.pop(idx) of Python: the position popped, counted from 1 (0 when the
\* index is out of range and pop raises IndexError)
PopPosition(len, idx) ==
    IF idx >= 0 /\ idx < len THEN idx + 1
    ELSE IF idx < 0 /\ -idx <= len THEN len + idx + 1
    ELSE 0

RemoveAt(seq, pos) == [k \in 1..(Len(seq) - 1) |-> IF k < pos THEN seq[k] ELSE seq[k + 1]]

\* lines 89-100: a pass starts: due and remaining are built, and the first alert
\* is sent when something is due
CheckStart ==
    /\ mPc = "sleep"
    /\ LET due == DueOf(mReminders, mNow)
       IN  IF due # <<>>
           THEN /\ mPc' = "alert"
                /\ mLoc' = [due |-> due, remaining |-> RemainingOf(mReminders, mNow), idx |-> 1]
           ELSE UNCHANGED <<mPc, mLoc>>
    /\ gNew' = {}
    /\ gGone' = {}
    /\ gDel' = <<>>
    /\ gUndone' = {}
    /\ UNCHANGED <<mNow, mReminders, mFile, mCmds>>

\* lines 99-100: an alert has been sent and another reminder is due
AlertNext ==
    /\ mPc = "alert"
    /\ mLoc.idx < Len(mLoc.due)
    /\ mLoc' = [mLoc EXCEPT !.idx = @ + 1]
    /\ gDel' = <<>>
    /\ gUndone' = {}
    /\ UNCHANGED <<mNow, mReminders, mFile, mPc, mCmds, gNew, gGone>>

\* lines 102-110: the last alert has been sent: remaining becomes the list and is
\* saved, then the loop sleeps
PassEnd ==
    /\ mPc = "alert"
    /\ mLoc.idx = Len(mLoc.due)
    /\ mReminders' = mLoc.remaining
    /\ mFile' = mLoc.remaining
    /\ mPc' = "sleep"
    /\ mLoc' = NoRemindLocals
    /\ gDel' = <<>>
    /\ gUndone' = {r \in gNew : r \notin RangeOf(mReminders') \/ r \notin RangeOf(mFile')}
                  \cup {r \in gGone : r \in RangeOf(mReminders') \/ r \in RangeOf(mFile')}
    /\ gNew' = {}
    /\ gGone' = {}
    /\ UNCHANGED <<mNow, mCmds>>

\* handle_command: /remind <time> | <task> (lines 57-76), for a reminder that is
\* not in the list yet
RemindCommand(r) ==
    /\ mCmds < MaxRemCmds
    /\ r \notin RangeOf(mReminders)
    /\ mReminders' = Append(mReminders, r)
    /\ mFile' = mReminders'
    /\ mCmds' = mCmds + 1
    /\ gNew' = IF mPc = "alert" THEN gNew \cup {r} ELSE gNew
    /\ gGone' = gGone \ {r}
    /\ gDel' = <<>>
    /\ gUndone' = {}
    /\ UNCHANGED <<mNow, mPc, mLoc>>

\* handle_command: /del <n> (lines 44-54); an index that pop rejects changes
\* nothing
DelCommand(n) ==
    /\ mCmds < MaxRemCmds
    /\ LET sorted_r == SortedByTime(mReminders)
           pos == PopPosition(Len(sorted_r), n - 1)
       IN  IF pos = 0
           THEN UNCHANGED <<mReminders, mFile, gNew, gGone>>
           ELSE /\ mReminders' = RemoveAt(sorted_r, pos)
                /\ mFile' = mReminders'
                /\ gNew' = gNew \ {sorted_r[pos]}
                /\ gGone' = IF mPc = "alert" THEN gGone \cup {sorted_r[pos]} ELSE gGone
    /\ mCmds' = mCmds + 1
    /\ gDel' = <<n>>
    /\ gUndone' = {}
    /\ UNCHANGED <<mNow, mPc, mLoc>>

\* the numbers a /del can name: those of the list, 0, and one past the end
DelNumbers == 0..MaxRemCmds

\* the clock advances
RemindTick ==
    /\ mNow < MaxRemNow
    /\ mNow' = mNow + 1
    /\ gDel' = <<>>
    /\ gUndone' = {}
    /\ UNCHANGED <<mReminders, mFile, mPc, mLoc, mCmds, gNew, gGone>>

\* lines 9-19: no reminders file yet
RemindInit ==
    /\ mNow = 0
    /\ mReminders = <<>>
    /\ mFile = <<>>
    /\ mPc = "sleep"
    /\ mLoc = NoRemindLocals
    /\ mCmds = 0
    /\ gNew = {}
    /\ gGone = {}
    /\ gUndone = {}
    /\ gDel = <<>>

NextRemind ==
    \/ CheckStart /\ UNCHANGED notRemind
    \/ AlertNext /\ UNCHANGED notRemind
    \/ PassEnd /\ UNCHANGED notRemind
    \/ \E r \in Reminders : RemindCommand(r) /\ UNCHANGED notRemind
    \/ \E n \in DelNumbers : DelCommand(n) /\ UNCHANGED notRemind
    \/ RemindTick /\ UNCHANGED notRemind

(***************************************************************************)
(* The older ReminderBot                                                   *)
(***************************************************************************)
NoOlderLocals == [now |-> 0, pending |-> <<>>, idx |-> 0]

\* lines 19-21: save_reminders; open(..., "w") raises when the directory is not
\* there
SaveRaises == ~oDir

\* lines 67-71: a pass starts
OlderCheckStart ==
    /\ oPc = "sleep"
    /\ oPc' = "loop"
    /\ oLoc' = [now |-> oNow, pending |-> <<>>, idx |-> 1]
    /\ UNCHANGED <<oNow, oDir, oReminders, oFile, oCmds>>

\* lines 71-77: one reminder of the live list, up to the alert send or the next
OlderStep ==
    /\ oPc = "loop"
    /\ oLoc.idx <= Len(oReminders)
    /\ LET r == oReminders[oLoc.idx]
       IN  IF r.time <= oLoc.now /\ ~r.done
           THEN /\ oPc' = "alert"
                /\ UNCHANGED oLoc
           ELSE /\ oLoc' = [oLoc EXCEPT !.pending = Append(@, r), !.idx = @ + 1]
                /\ UNCHANGED oPc
    /\ UNCHANGED <<oNow, oDir, oReminders, oFile, oCmds>>

\* lines 74-75: the alert has been sent: r["done"] = True
OlderAlertSent ==
    /\ oPc = "alert"
    /\ oReminders' = [oReminders EXCEPT ![oLoc.idx].done = TRUE]
    /\ oLoc' = [oLoc EXCEPT !.idx = @ + 1]
    /\ oPc' = "loop"
    /\ UNCHANGED <<oNow, oDir, oFile, oCmds>>

\* lines 79-84: the list is done: pending replaces it and is saved when something
\* was sent; no try surrounds the body of the loop, so an error of the save
\* leaves the coroutine
OlderPassEnd ==
    /\ oPc = "loop"
    /\ oLoc.idx > Len(oReminders)
    /\ IF Len(oLoc.pending) # Len(oReminders)
       THEN /\ oReminders' = oLoc.pending
            /\ IF SaveRaises
               THEN oPc' = "terminated" /\ UNCHANGED oFile
               ELSE oPc' = "sleep" /\ oFile' = oLoc.pending
       ELSE /\ oPc' = "sleep"
            /\ UNCHANGED <<oReminders, oFile>>
    /\ oLoc' = NoOlderLocals
    /\ UNCHANGED <<oNow, oDir, oCmds>>

\* handle_command: /remind (lines 29-63); an error of the save is caught at line
\* 61, after the append
OlderRemindCommand(r) ==
    /\ oPc \in {"sleep", "alert", "terminated"}
    /\ oCmds < MaxRemCmds
    /\ oReminders' = Append(oReminders, [time |-> r.time, task |-> r.task, done |-> FALSE])
    /\ oFile' = IF SaveRaises THEN oFile ELSE oReminders'
    /\ oCmds' = oCmds + 1
    /\ UNCHANGED <<oNow, oDir, oPc, oLoc>>

\* the clock advances
OlderTick ==
    /\ oPc \in {"sleep", "alert", "terminated"}
    /\ oNow < MaxRemNow
    /\ oNow' = oNow + 1
    /\ UNCHANGED <<oDir, oReminders, oFile, oPc, oLoc, oCmds>>

\* lines 9-17: no reminders file yet, with or without its directory
OlderInit ==
    /\ oNow = 0
    /\ oDir \in BOOLEAN
    /\ oReminders = <<>>
    /\ oFile = <<>>
    /\ oPc = "sleep"
    /\ oLoc = NoOlderLocals
    /\ oCmds = 0

OlderIdle ==
    /\ oNow = 0
    /\ oDir = TRUE
    /\ oReminders = <<>>
    /\ oFile = <<>>
    /\ oPc = "sleep"
    /\ oLoc = NoOlderLocals
    /\ oCmds = 0

NextOlder ==
    \/ OlderCheckStart /\ UNCHANGED notOlder
    \/ OlderStep /\ UNCHANGED notOlder
    \/ OlderAlertSent /\ UNCHANGED notOlder
    \/ OlderPassEnd /\ UNCHANGED notOlder
    \/ \E r \in Reminders : OlderRemindCommand(r) /\ UNCHANGED notOlder
    \/ OlderTick /\ UNCHANGED notOlder

(***************************************************************************)
(* C5-C6, C9-C10: the train monitor                                        *)
(***************************************************************************)
\* the watch the monitor is about to process, as it stood when the fetch of its
\* station returned, and what that fetch shows for it
C5_Case ==
    /\ tPc = "iter"
    /\ tLoc.idx <= Len(tLoc.items)
    /\ tLoc.items[tLoc.idx].origin = tLoc.station
    /\ tLoc.trains[tLoc.items[tLoc.idx].key] # NoService

C5_Stored(subs, key) == {<<subs[i].status, subs[i].plat>> : i \in {j \in DOMAIN subs : subs[j].key = key}}

\* C5: for a watch whose stored (status, platform) was F0 when the fetch of its
\* station returned, and whose train that fetch shows with F1: when F1 differs
\* from F0 the monitor sends one alert for it and the stored fingerprint becomes
\* F1; when F1 equals F0 it sends no alert and leaves the subscriptions as they
\* are.
C5_FingerprintDiff ==
    [][C5_Case =>
        LET w  == tLoc.items[tLoc.idx]
            F0 == <<w.status, w.plat>>
            F1 == <<tLoc.trains[w.key].etd, tLoc.trains[w.key].plat>>
        IN  IF F1 # F0
            THEN /\ gEmit' = w.key
                 /\ tPc' = "alert"
                 /\ C5_Stored(tSubs', w.key) = {F1}
            ELSE /\ gEmit' = ""
                 /\ tPc' = "iter"
                 /\ tSubs' = tSubs]_vars

\* a platform change alone has raised an alert and been stored
C5_Witness ==
    /\ tPc = "alert"
    /\ gEmit # ""
    /\ tLoc.items[tLoc.idx].status = tLoc.cur_status
    /\ tLoc.items[tLoc.idx].plat # tLoc.trains[gEmit].plat
    /\ C5_Stored(tSubs, gEmit) = {<<tLoc.cur_status, tLoc.trains[gEmit].plat>>}

\* C6: a watch whose scheduled time was absent from the fetch of its station is
\* out of the subscriptions when that tick has ended, and until it is watched
\* again it stays out and no alert is sent for it.
C6_AutoUnwatch ==
    \A t \in gRetired : t \notin Keys(tSubs) /\ gEmit # t

\* a later tick alerts for another watch while the retired one stays out
C6_Witness ==
    /\ gRetired # {}
    /\ gEmit # ""
    /\ tPc = "alert"

\* C9: after /unwatch <t>, <t> is not in the subscriptions and no alert is sent
\* for it until a later /watch <t>, whatever the monitor was doing when the
\* command was handled.
C9_UnwatchHolds ==
    \A t \in gUnwatched : t \notin Keys(tSubs) /\ gEmit # t

\* C10: a watch registered while a tick was suspended at a fetch or an alert
\* send, and not marked by the tick after that, is still in the subscriptions
\* when the tick ends.
C10_FreshKept == gLost = {}

(***************************************************************************)
(* C7-C8: the command router                                               *)
(***************************************************************************)
\* the internal id each bot answers for
C7_IdOf ==
    ("budget_bot" :> BUDGET_INTERNAL_ID) @@ ("train_bot" :> TRAIN_INTERNAL_ID) @@
    ("bin_bot" :> BIN_INTERNAL_ID) @@ ("nest_bot" :> NEST_INTERNAL_ID)

C7_Bound == {C7_IdOf[b] : b \in DOMAIN C7_IdOf}

\* C7: every handle_command call of the router is made on the bot whose internal
\* id the message came under, and a message that came under an id bound to no
\* handler has caused no call and no send.
C7_Isolation ==
    /\ \A k \in DOMAIN gCalls : rBatch[gCalls[k].idx].id = C7_IdOf[gCalls[k].bot]
    /\ \A i \in DOMAIN rBatch :
          rBatch[i].id \notin C7_Bound =>
              /\ \A k \in DOMAIN gCalls : gCalls[k].idx # i
              /\ \A k \in DOMAIN gSends : gSends[k].idx # i

\* a batch with a command under the testing id and one under the train id is
\* done: one call, on the train bot, and one send
C7_Witness ==
    /\ rPc = "sleep"
    /\ Len(rBatch) = 2
    /\ IsCommand(rBatch[1]) /\ rBatch[1].id = TESTING_INTERNAL_ID
    /\ IsCommand(rBatch[2]) /\ rBatch[2].id = TRAIN_INTERNAL_ID
    /\ Len(gCalls) = 1 /\ gCalls[1].bot = "train_bot" /\ gCalls[1].idx = 2
    /\ Len(gSends) = 1 /\ gSends[1].idx = 2

\* C8: when the router has left a batch, every command of it that came under an
\* id of the routing table has had one handle_command call, with its text as it
\* came; a reply was sent once, to the recipient of that id, and nothing was sent
\* when the handler returned no reply.
C8_Dispatch ==
    rPc = "sleep" =>
        \A i \in DOMAIN rBatch :
            (IsCommand(rBatch[i]) /\ rBatch[i].id \in DOMAIN BOT_ROUTING) =>
                LET calls == {k \in DOMAIN gCalls : gCalls[k].idx = i}
                    sends == {k \in DOMAIN gSends : gSends[k].idx = i}
                IN  /\ Cardinality(calls) = 1
                    /\ \A k \in calls :
                          /\ gCalls[k].arg = rBatch[i].text
                          /\ IF Truthy(gCalls[k].reply) /\ gCalls[k].reply # "raised"
                             THEN /\ Cardinality(sends) = 1
                                  /\ \A j \in sends :
                                        /\ gSends[j].to = BOT_ROUTING[rBatch[i].id]
                                        /\ gSends[j].payload = gCalls[k].reply
                             ELSE sends = {}

(***************************************************************************)
(* Process start: main() of src/master_bot.py                              *)
(***************************************************************************)
\* the environment variables the bots and the router read for their external
\* services
EnvNames == {"LDB_TOKEN", "GOOGLE_USERNAME", "GOOGLE_MASTER_TOKEN", "WASTE_URL",
             "SIGNAL_NUMBER"}

Bots == {"budget_bot", "train_bot", "bin_bot", "nest_bot"}

\* what each bot reads from the environment to reach its service
RequiredEnv(bot) ==
    CASE bot = "train_bot" -> {"LDB_TOKEN"}
      [] bot = "nest_bot" -> {"GOOGLE_USERNAME", "GOOGLE_MASTER_TOKEN"}
      [] bot = "bin_bot" -> {"WASTE_URL"}
      [] bot = "budget_bot" -> {}

\* the background coroutine of each bot
LoopOf(bot) ==
    CASE bot = "train_bot" -> "monitor_subscriptions"
      [] bot = "nest_bot" -> "sync_task"
      [] bot = "bin_bot" -> "bin_scheduler"
      [] bot = "budget_bot" -> "weekly_task"

\* lines 148-154: the coroutines of the gather call
Gathered == {"master_listener", "sync_task", "weekly_task", "monitor_subscriptions",
             "bin_scheduler"}

\* line 128: BudgetBot()
NewBudgetBot ==
    /\ sPc = "budget"
    /\ sBots' = sBots \cup {"budget_bot"}
    /\ sPc' = "train"
    /\ UNCHANGED <<sEnv, sLog, sLoops>>

\* line 129: TrainBot(), which logs an error when LDB_TOKEN is not set and
\* returns the bot all the same
NewTrainBot ==
    /\ sPc = "train"
    /\ sBots' = sBots \cup {"train_bot"}
    /\ sLog' = IF "LDB_TOKEN" \notin sEnv
               THEN sLog \cup {"TrainBot: LDB_TOKEN not found."} ELSE sLog
    /\ sPc' = "bin"
    /\ UNCHANGED <<sEnv, sLoops>>

\* line 130: BinBot()
NewBinBot ==
    /\ sPc = "bin"
    /\ sBots' = sBots \cup {"bin_bot"}
    /\ sPc' = "nest"
    /\ UNCHANGED <<sEnv, sLog, sLoops>>

\* line 131: NestBot(), whose constructor connects to Google and lists the
\* cameras: here the calls return
NewNestBot ==
    /\ sPc = "nest"
    /\ sBots' = sBots \cup {"nest_bot"}
    /\ sPc' = "gather"
    /\ UNCHANGED <<sEnv, sLog, sLoops>>

\* line 131: NestBot() with a Google credential missing, where the connection
\* or the camera listing raises: nothing in __init__ or in main catches it
NewNestBotRaises ==
    /\ sPc = "nest"
    /\ ~(RequiredEnv("nest_bot") \subseteq sEnv)
    /\ sPc' = "crashed"
    /\ UNCHANGED <<sEnv, sBots, sLog, sLoops>>

\* lines 148-154: every loop is handed to asyncio.gather
Gather ==
    /\ sPc = "gather"
    /\ sLoops' = Gathered
    /\ sPc' = "running"
    /\ UNCHANGED <<sEnv, sBots, sLog>>

\* asyncio.run(main()) with any subset of the variables set
StartInit ==
    /\ sEnv \in SUBSET EnvNames
    /\ sPc = "budget"
    /\ sBots = {}
    /\ sLog = {}
    /\ sLoops = {}

\* the process start left out of the specifications of the bots
StartIdle ==
    /\ sEnv = {}
    /\ sPc = "off"
    /\ sBots = {}
    /\ sLog = {}
    /\ sLoops = {}

NextStart ==
    \/ NewBudgetBot /\ UNCHANGED notStart
    \/ NewTrainBot /\ UNCHANGED notStart
    \/ NewBinBot /\ UNCHANGED notStart
    \/ NewNestBot /\ UNCHANGED notStart
    \/ NewNestBotRaises /\ UNCHANGED notStart
    \/ Gather /\ UNCHANGED notStart

(***************************************************************************)
(* The state stores: what each bot's load function makes of its file       *)
(***************************************************************************)
Stores == {"budget_state", "bins", "stations", "nest_state", "reminders",
           "reminders_older"}

\* a file that does not exist, a file whose content is not JSON, a file that
\* holds what the bot saved
FileContents == {"missing", "malformed", "valid"}

\* budget_bot.py lines 14-24: OSError and ValueError give the default state
LoadBudgetState(content) == IF content = "valid" THEN "content" ELSE "default"

\* bin_bot.py lines 24-29: FileNotFoundError and JSONDecodeError give None
LoadCache(content) == IF content = "valid" THEN "content" ELSE "default"

\* train_bot.py lines 24-31: a missing file or any error gives the two shortcuts
LoadStations(content) == IF content = "valid" THEN "content" ELSE "default"

\* nest_bot.py lines 30-41: a missing file, JSONDecodeError or IOError give {}
LoadNestState(content) == IF content = "valid" THEN "content" ELSE "default"

\* bots/reminder_bot.py lines 13-19: a missing file or any error gives []
LoadReminders(content) == IF content = "valid" THEN "content" ELSE "default"

\* bots/import os.py lines 13-17: a missing file gives []; json.load is not in
\* a try, so a malformed file raises out of the constructor
LoadRemindersOlder(content) ==
    CASE content = "missing" -> "default"
      [] content = "malformed" -> "raised"
      [] content = "valid" -> "content"

LoadOf(store, content) ==
    CASE store = "budget_state" -> LoadBudgetState(content)
      [] store = "bins" -> LoadCache(content)
      [] store = "stations" -> LoadStations(content)
      [] store = "nest_state" -> LoadNestState(content)
      [] store = "reminders" -> LoadReminders(content)
      [] store = "reminders_older" -> LoadRemindersOlder(content)

\* a bot is constructed (or, for the bin cache, the scheduler starts a cycle)
\* and loads its store
Load(store) ==
    /\ lOut[store] = "unloaded"
    /\ lOut' = [lOut EXCEPT ![store] = LoadOf(store, lFiles[store])]
    /\ UNCHANGED lFiles

LoadInit ==
    /\ lFiles \in [Stores -> FileContents]
    /\ lOut = [s \in Stores |-> "unloaded"]

\* the stores left out of the specifications of the bots
LoadIdle ==
    /\ lFiles = [s \in Stores |-> "missing"]
    /\ lOut = [s \in Stores |-> "unloaded"]

NextLoad == \E store \in Stores : Load(store) /\ UNCHANGED notLoad

(***************************************************************************)
(* NestBot                                                                 *)
(***************************************************************************)
\* self.devices: one camera that is in self.monitored and one that is not
NestDevices == <<"Backyard", "Garage">>

\* line 21: self.monitored
Monitored == {"Backyard", "Nest Doorbell (battery)"}

NoTimestamp == 0

EventTimes == 1..MaxNestNow

\* what device.get_events(end_time=now, ...) can return: None or a list of
\* events, each known by its start_time, none after now
EventLists(now) ==
    LET past == {t \in EventTimes : t <= now}
    IN  {es \in UNION {[1..k -> past] : k \in 0..MaxNestEvents} :
            \A i, j \in DOMAIN es : i # j => es[i] # es[j]}

NoNestLocals == [now |-> 0, devs |-> <<>>, dev |-> "", events |-> <<>>, idx |-> 0,
                 latest |-> NoTimestamp]

\* lines 132-133: latest_event_time after an event that was not skipped
Latest(latest, start_time) ==
    IF latest = NoTimestamp \/ start_time > latest THEN start_time ELSE latest

\* a sync that takes no clip file for present
ExistsNever(clips, clip) == FALSE

\* line 122: os.path.exists(filepath)
Exists(clips, clip) == clip \in clips

\* lines 96-98: an iteration starts
SyncStart ==
    /\ xPc = "sleep"
    /\ xLoc' = [NoNestLocals EXCEPT !.now = xNow, !.devs = NestDevices]
    /\ xPc' = "device"
    /\ UNCHANGED <<xNow, xEnabled, xState, xClips, xCmds, xStops, gAlerted, gMiss>>

\* lines 98-112: the next device: its stored timestamp is read and its events
\* are fetched
SyncDevice(events) ==
    /\ xPc = "device"
    /\ xLoc.devs # <<>>
    /\ xLoc' = [xLoc EXCEPT !.devs = Tail(@), !.dev = Head(xLoc.devs),
                            !.events = events, !.idx = 1,
                            !.latest = xState[Head(xLoc.devs)]]
    /\ xPc' = "event"
    /\ UNCHANGED <<xNow, xEnabled, xState, xClips, xCmds, xStops, gAlerted, gMiss>>

\* lines 116-117: the event is at or before latest_event_time and is skipped
Skipped(latest, start_time) == latest # NoTimestamp /\ start_time <= latest

\* lines 114-133: one event, up to the alert send or the next event; video_bytes
\* is truthy when saved is TRUE
SyncEvent(saved) ==
    /\ xPc = "event"
    /\ xLoc.idx <= Len(xLoc.events)
    /\ LET start_time == xLoc.events[xLoc.idx]
           clip == <<xLoc.dev, start_time>>
       IN  IF Skipped(xLoc.latest, start_time)
           THEN /\ xLoc' = [xLoc EXCEPT !.idx = @ + 1]
                /\ UNCHANGED <<xClips, xPc, gAlerted, gMiss>>
           ELSE IF ~Exists(xClips, clip) /\ saved
           THEN /\ xClips' = xClips \cup {clip}
                /\ gMiss' = gMiss \ {clip}
                /\ IF xLoc.dev \in Monitored
                   THEN /\ xPc' = "alert"
                        /\ gAlerted' = gAlerted \cup {clip}
                        /\ UNCHANGED xLoc
                   ELSE /\ xLoc' = [xLoc EXCEPT !.latest = Latest(@, start_time),
                                                !.idx = @ + 1]
                        /\ UNCHANGED <<xPc, gAlerted>>
           ELSE /\ xLoc' = [xLoc EXCEPT !.latest = Latest(@, start_time), !.idx = @ + 1]
                /\ gMiss' = IF Exists(xClips, clip) THEN gMiss ELSE gMiss \cup {clip}
                /\ UNCHANGED <<xClips, xPc, gAlerted>>
    /\ UNCHANGED <<xNow, xEnabled, xState, xCmds, xStops>>

\* lines 130-133: the alert has been sent
SyncAlerted ==
    /\ xPc = "alert"
    /\ xLoc' = [xLoc EXCEPT !.latest = Latest(@, xLoc.events[xLoc.idx]), !.idx = @ + 1]
    /\ xPc' = "event"
    /\ UNCHANGED <<xNow, xEnabled, xState, xClips, xCmds, xStops, gAlerted, gMiss>>

\* lines 135-138: the events of the device are done: the state is updated and saved
SyncDeviceDone ==
    /\ xPc = "event"
    /\ xLoc.idx > Len(xLoc.events)
    /\ xState' = IF xLoc.latest # NoTimestamp
                 THEN [xState EXCEPT ![xLoc.dev] = xLoc.latest] ELSE xState
    /\ xPc' = "device"
    /\ UNCHANGED <<xNow, xEnabled, xClips, xLoc, xCmds, xStops, gAlerted, gMiss>>

\* lines 140, 144: every device is done and the loop sleeps
SyncDone ==
    /\ xPc = "device"
    /\ xLoc.devs = <<>>
    /\ xLoc' = NoNestLocals
    /\ xPc' = "sleep"
    /\ UNCHANGED <<xNow, xEnabled, xState, xClips, xCmds, xStops, gAlerted, gMiss>>

\* lines 141-144: get_events (line 110), download_camera_event (line 123) or
\* the alert callback (line 130) raises: the except logs it, the state of the
\* device in hand is not updated, and the loop sleeps
SyncRaises ==
    /\ \/ xPc = "device" /\ xLoc.devs # <<>>
       \/ /\ xPc = "event"
          /\ xLoc.idx <= Len(xLoc.events)
          /\ ~Skipped(xLoc.latest, xLoc.events[xLoc.idx])
          /\ ~Exists(xClips, <<xLoc.dev, xLoc.events[xLoc.idx]>>)
       \/ xPc = "alert"
    /\ xLoc' = NoNestLocals
    /\ xPc' = "sleep"
    /\ UNCHANGED <<xNow, xEnabled, xState, xClips, xCmds, xStops, gAlerted, gMiss>>

\* the task is suspended: in its sleep or at an alert send
SyncSuspended == xPc \in {"sleep", "alert"}

\* handle_command: /message on and /message off (lines 77-85)
MessageCommand(on) ==
    /\ SyncSuspended
    /\ xCmds < MaxNestCmds
    /\ xEnabled' = on
    /\ xCmds' = xCmds + 1
    /\ UNCHANGED <<xNow, xState, xClips, xPc, xLoc, xStops, gAlerted, gMiss>>

\* the clock advances while the task sleeps
NestTick ==
    /\ xPc = "sleep"
    /\ xNow < MaxNestNow
    /\ xNow' = xNow + 1
    /\ UNCHANGED <<xEnabled, xState, xClips, xPc, xLoc, xCmds, xStops, gAlerted, gMiss>>

\* the process stops at any point and NestBot() is constructed again (lines
\* 13-41): the state is what line 138 saved last, the clip files are still there
NestRestart ==
    /\ xStops < MaxNestStops
    /\ xStops' = xStops + 1
    /\ xEnabled' = TRUE
    /\ xPc' = "sleep"
    /\ xLoc' = NoNestLocals
    /\ UNCHANGED <<xNow, xState, xClips, xCmds, gAlerted, gMiss>>

\* NestBot() with no state file, and the start of sync_task
NestInit ==
    /\ xNow = 0
    /\ xEnabled = TRUE
    /\ xState = [d \in {NestDevices[i] : i \in DOMAIN NestDevices} |-> NoTimestamp]
    /\ xClips = {}
    /\ xPc = "sleep"
    /\ xLoc = NoNestLocals
    /\ xCmds = 0
    /\ xStops = 0
    /\ gAlerted = {}
    /\ gMiss = {}

\* the nest bot left out of the specifications of the other bots
NestIdle == NestInit

NextNest ==
    \/ SyncStart /\ UNCHANGED notNest
    \/ \E events \in EventLists(xLoc.now) : SyncDevice(events) /\ UNCHANGED notNest
    \/ \E saved \in BOOLEAN : SyncEvent(saved) /\ UNCHANGED notNest
    \/ SyncAlerted /\ UNCHANGED notNest
    \/ SyncDeviceDone /\ UNCHANGED notNest
    \/ SyncDone /\ UNCHANGED notNest
    \/ SyncRaises /\ UNCHANGED notNest
    \/ \E on \in BOOLEAN : MessageCommand(on) /\ UNCHANGED notNest
    \/ NestTick /\ UNCHANGED notNest
    \/ NestRestart /\ UNCHANGED notNest

(***************************************************************************)
(* The specifications                                                      *)
(***************************************************************************)
InitBin == NestIdle /\ LoadIdle /\ StartIdle /\ OlderIdle /\ RemindInit /\ BudgetIdle /\ TrainInit /\ RouterInit /\ BinInit

SpecBin == InitBin /\ [][NextBin]_vars

InitBudget == NestIdle /\ LoadIdle /\ StartIdle /\ OlderIdle /\ RemindInit /\ BinIdle /\ TrainInit /\ RouterInit /\ BudgetInit

SpecBudget == InitBudget /\ [][NextBudget]_vars

InitTrain == NestIdle /\ LoadIdle /\ StartIdle /\ OlderIdle /\ RemindInit /\ BudgetIdle /\ BinIdle /\ RouterInit /\ TrainInit

SpecTrain == InitTrain /\ [][NextTrain]_vars

\* the monitor with a feed that can fail and can send a service with no etd
NextTrainFeed ==
    \/ NextTrain
    \/ FetchFails /\ UNCHANGED notTrain
    \/ \E board \in MalformedBoards : FetchDone(board) /\ UNCHANGED notTrain
    \/ TickRaises /\ UNCHANGED notTrain

InitTrainFeed == NestIdle /\ LoadIdle /\ StartIdle /\ OlderIdle /\ RemindInit /\ BudgetIdle /\ BinIdle /\ RouterInit /\ TrainInit

SpecTrainFeed == InitTrainFeed /\ [][NextTrainFeed]_vars

InitRouter == NestIdle /\ LoadIdle /\ StartIdle /\ OlderIdle /\ RemindInit /\ BudgetIdle /\ BinIdle /\ TrainInit /\ RouterInit

SpecRouter == InitRouter /\ [][NextRouter]_vars

InitRemind == NestIdle /\ LoadIdle /\ StartIdle /\ OlderIdle /\ BudgetIdle /\ BinIdle /\ TrainInit /\ RouterInit /\ RemindInit

SpecRemind == InitRemind /\ [][NextRemind]_vars

InitOlder == NestIdle /\ LoadIdle /\ StartIdle /\ BudgetIdle /\ BinIdle /\ TrainInit /\ RouterInit /\ RemindInit /\ OlderInit

SpecOlder == InitOlder /\ [][NextOlder]_vars

InitStart == NestIdle /\ LoadIdle /\ BudgetIdle /\ BinIdle /\ TrainInit /\ RouterInit /\ RemindInit /\ OlderIdle /\ StartInit

SpecStart == InitStart /\ [][NextStart]_vars

InitLoad == NestIdle /\ StartIdle /\ BudgetIdle /\ BinIdle /\ TrainInit /\ RouterInit /\ RemindInit /\ OlderIdle /\ LoadInit

SpecLoad == InitLoad /\ [][NextLoad]_vars

InitNest == LoadIdle /\ StartIdle /\ BudgetIdle /\ BinIdle /\ TrainInit /\ RouterInit /\ RemindInit /\ OlderIdle /\ NestInit

SpecNest == InitNest /\ [][NextNest]_vars

\* the whole weeks between a checkpoint date and a clock value
ElapsedPeriods(now, last) == (now - Strptime(last)) \div (DaysPerWeek * TicksPerDay)

\* C1: an evaluation at now from checkpoint T0 with k = floor((now - T0) / 7 days) >= 1
\* adds exactly k * weekly_amount to the balance and moves the checkpoint to
\* T0 + 7k days (both saved); with k = 0 it credits nothing; and an evaluation at
\* the clock value of a completed crediting evaluation changes neither the
\* balance nor the checkpoint.
C1_CatchUp ==
    [][ /\ (bPc = "eval" /\ bPc' # "eval" /\ bPc' # "down") =>
              LET k == ElapsedPeriods(bNow, bMem.last_weekly_update)
              IN  /\ k >= 1 => bPc' = "mid"
                  /\ k < 1 => (bPc' = "sleep" /\ bMem' = bMem /\ bFile' = bFile)
        /\ (bPc = "mid" /\ bPc' = "alert") =>
              LET k == ElapsedPeriods(gEval.now, gEval.last)
              IN  /\ k >= 1
                  /\ bMem'.balance = gEval.balance + k * gEval.weekly_amount
                  /\ bMem'.last_weekly_update = gEval.last + DaysPerWeek * k
                  /\ bFile' = <<bMem'>>
        /\ (bPc = "eval" /\ bPc' # "eval" /\ bPc' # "down" /\ gDone.at = bNow) =>
              (bMem' = bMem /\ bFile' = bFile)
      ]_vars

\* C1 witness: a catch-up of three weeks has completed and a second evaluation at
\* the same clock value has run
C1_Witness == gDone.k = 3 /\ gDone.again /\ gDone.at = bNow

\* C2: across process stops and restarts, the weeks credited since the initial
\* checkpoint never exceed the whole weeks elapsed since it: no elapsed period is
\* credited twice.
C2_CreditedOnce == gCred.weeks <= ElapsedPeriods(bNow, gCred.t0)

\* C3: no reminder (night-before or morning-of) is sent twice for the same
\* collection date, whatever the cycles, retries, restarts and re-evaluations.
C3_AtMostOnce == ~gDouble

\* C3 witness: after a restart the cycle is re-evaluated with the same cached
\* date and a clock past the night-before milestone, whose reminder was sent
\* before the restart
C3_Witness ==
    /\ nStops >= 1
    /\ nPc \in {"sleep", "fetch2"}
    /\ <<nLoc.next_date, "night">> \in gSent
    /\ gCycle.fired = <<>>
    /\ nNow >= nLoc.next_date - 6

C4_Rank(kind) == CASE kind = "night" -> 1 [] kind = "morning" -> 2 [] kind = "refresh" -> 3

C4_Target(kind, anchor) ==
    CASE kind = "night" -> anchor - 24 + 18
      [] kind = "morning" -> anchor + 7
      [] kind = "refresh" -> anchor + 24 + 9

\* C4: in one cycle the reminders are sent in ascending order of their target
\* times, each at or after its target; a reminder is sent, and the refresh fetch
\* is made, only when every earlier milestone that was still ahead at the start
\* of the cycle has fired.
C4_Ordered ==
    LET fired == gCycle.fired
    IN  /\ \A i, j \in DOMAIN fired : i < j => C4_Rank(fired[i]) < C4_Rank(fired[j])
        /\ \A i \in DOMAIN fired : \A k \in gCycle.ahead :
               C4_Rank(k) < C4_Rank(fired[i]) => \E j \in 1..(i - 1) : fired[j] = k
        /\ nPc = "alert" => nNow >= C4_Target(fired[Len(fired)], nLoc.next_date)
        /\ nPc = "fetch2" =>
               /\ nNow >= C4_Target("refresh", nLoc.next_date)
               /\ \A k \in gCycle.ahead \ {"refresh"} : \E j \in DOMAIN fired : fired[j] = k

\* C4 witness: a cycle that sent both reminders has reached its refresh fetch
C4_Witness == nPc = "fetch2" /\ gCycle.fired = <<"night", "morning">>

(***************************************************************************)
(* C11: the reminder loop                                                  *)
(***************************************************************************)
\* C11: when a check pass has completed, every reminder added by a /remind
\* handled while the pass was sending an alert is in the pending list and in the
\* file, and every reminder deleted by a /del handled then is in neither.
C11_CommandKept == gUndone = {}
(***************************************************************************)
(* C12, C19: the train monitor and its feed                                *)
(***************************************************************************)
\* C12: when a tick has ended, no watch of a station whose fetch failed in that
\* tick has been removed by it.
C12_FailureKeeps == gFail.lost = {}
(***************************************************************************)
(* C13: the background loops                                               *)
(***************************************************************************)
\* C13: no failure inside an iteration ends a background loop: the loop is at
\* its sleep or in an iteration, never terminated.
C13_LoopGoesOn == oPc # "terminated"
(***************************************************************************)
(* C14: send_signal                                                        *)
(***************************************************************************)
\* C14: send_signal never raises to its caller: a call of send_signal, with or
\* without an attachment, returns to the router's loop over the batch, which
\* goes on with the next message.
C14_SendReturns == [][rPc = "send" => rPc' = "msg"]_vars
(***************************************************************************)
(* C15: the weekly checkpoint                                              *)
(***************************************************************************)
\* C15: while the budget bot runs, no step of weekly_task and no command lowers
\* last_weekly_update, and when an evaluation has ended (the task is sending its
\* alert or going to sleep) the checkpoint's date is not after the clock.
C15_Checkpoint ==
    [][ /\ (bPc # "down" /\ bPc' # "down") =>
              bMem'.last_weekly_update >= bMem.last_weekly_update
        /\ (bPc \in {"eval", "mid"} /\ bPc' \in {"alert", "sleep"}) =>
              Strptime(bMem'.last_weekly_update) <= bNow'
      ]_vars

\* C15 witness: after a command, an evaluation has moved the checkpoint by two
\* weeks or more and is sending its alert
C15_Witness == bPc = "alert" /\ bCmds > 0 /\ bMem.last_weekly_update >= 2 * DaysPerWeek
(***************************************************************************)
(* C16: no retroactive reminder                                            *)
(***************************************************************************)
\* C16: the bin scheduler never waits for, and so never fires, a milestone whose
\* target was not in the future when it was evaluated: it goes to sleep only
\* for a milestone with now < target, a reminder is sent only straight after
\* such a sleep and at or after the target, and no reminder of a cycle is for a
\* milestone that had already passed when the cycle began.
C16_NoRetroactive ==
    [][ /\ (nPc # "sleep" /\ nPc' = "sleep") =>
              nLoc'.now < C4_Target(Milestones[nLoc'.idx], nLoc'.next_date)
        /\ (nPc # "alert" /\ nPc' = "alert") =>
              /\ nPc = "sleep"
              /\ nLoc.now < C4_Target(Milestones[nLoc.idx], nLoc.next_date)
              /\ nNow' >= C4_Target(Milestones[nLoc.idx], nLoc.next_date)
              /\ gCycle'.fired = Append(gCycle.fired, Milestones[nLoc.idx])
        /\ \A i \in DOMAIN gCycle'.fired : gCycle'.fired[i] \in gCycle'.ahead
      ]_vars

\* C16 witness: a cycle that began after its night-before target sent no
\* night-before reminder and is sending the morning one
C16_Witness ==
    /\ nPc = "alert"
    /\ gCycle.fired = <<"morning">>
    /\ "night" \notin gCycle.ahead
(***************************************************************************)
(* C17-C18: watching again, and the terminal transition                    *)
(***************************************************************************)
\* C17: a command that changes the stored fingerprint of a key that was already
\* watched (only /watch <t> does) leaves it at the unknown value: status
\* "Unknown", platform "TBC".
C17_DuplicateResets ==
    [][ tCmds' = tCmds + 1 =>
          \A t \in Keys(tSubs) \cap Keys(tSubs') :
              C5_Stored(tSubs', t) # C5_Stored(tSubs, t) =>
                  C5_Stored(tSubs', t) = {<<UnknownEntry.etd, UnknownEntry.plat>>}
      ]_vars

\* C18: a watch found with status "Departed" and a fingerprint that differs from
\* the stored one gets its change alert while it is still watched, is marked
\* when the alert has been sent, and is out of the subscriptions when the tick
\* ends; a watch whose train the fetch of its station does not show is marked
\* with no alert, and is out when the tick ends.
C18_Terminal ==
    [][ /\ C5_Case =>
              LET w  == tLoc.items[tLoc.idx]
                  F0 == <<w.status, w.plat>>
                  F1 == <<tLoc.trains[w.key].etd, tLoc.trains[w.key].plat>>
              IN  (F1[1] = "Departed" /\ F1 # F0) =>
                      /\ gEmit' = w.key
                      /\ tPc' = "alert"
                      /\ w.key \in Keys(tSubs')
                      /\ tLoc'.to_remove = tLoc.to_remove
        /\ (tPc = "alert" /\ tPc' = "iter" /\ tLoc.cur_status = "Departed") =>
              /\ tLoc'.to_remove = Append(tLoc.to_remove, tLoc.items[tLoc.idx].key)
              /\ tSubs' = tSubs
        /\ ( /\ tPc = "iter"
             /\ tLoc.idx <= Len(tLoc.items)
             /\ tLoc.items[tLoc.idx].origin = tLoc.station
             /\ tLoc.trains[tLoc.items[tLoc.idx].key] = NoService ) =>
              /\ gEmit' = ""
              /\ tPc' = "iter"
              /\ tLoc'.to_remove = Append(tLoc.to_remove, tLoc.items[tLoc.idx].key)
        /\ (tPc = "iter" /\ tPc' = "sleep") =>
              \A i \in DOMAIN tLoc.to_remove : tLoc.to_remove[i] \notin Keys(tSubs')
      ]_vars

\* C18 witness: the change alert of a watch found departed has been sent, its
\* new fingerprint is stored, and the watch is the last one marked for removal
C18_Witness ==
    /\ tPc = "iter"
    /\ tLoc.idx > 1
    /\ tLoc.to_remove # <<>>
    /\ LET w == tLoc.items[tLoc.idx - 1]
       IN  /\ tLoc.to_remove[Len(tLoc.to_remove)] = w.key
           /\ w.status # "Departed"
           /\ \E i \in DOMAIN tSubs : tSubs[i].key = w.key /\ tSubs[i].status = "Departed"
(***************************************************************************)
(* C19: removal at the end of the tick                                     *)
(***************************************************************************)
\* C19: a step of the monitor (not a command) takes a key out of the
\* subscriptions only when the pass over the last station is over, and then it
\* takes out exactly the keys marked in the tick, all at once; every other
\* monitor step, the abort of a tick by an exception included, removes no key.
C19_RemovalAtEnd ==
    [][ tCmds' = tCmds =>
          IF tPc = "iter" /\ tLoc.idx > Len(tLoc.items) /\ tLoc.stations = {}
          THEN Keys(tSubs') = Keys(tSubs) \ {tLoc.to_remove[i] : i \in DOMAIN tLoc.to_remove}
          ELSE Keys(tSubs) \subseteq Keys(tSubs')
      ]_vars

\* C19 witness: a tick that had marked a watch was aborted by an exception, and
\* the marked watch is still in the subscriptions
C19_Witness ==
    /\ tPc = "sleep"
    /\ gFail.spared \cap Keys(tSubs) # {}
(***************************************************************************)
(* C20: a missing credential at startup                                    *)
(***************************************************************************)
\* C20: when the start of the process is over, the loop of a bot is among the
\* started ones exactly when every variable the bot requires is set, and the
\* router's loop is started whatever is missing.
C20_OnlyConfigured ==
    sPc \in {"running", "crashed"} =>
        /\ "master_listener" \in sLoops
        /\ \A bot \in Bots : LoopOf(bot) \in sLoops <=> RequiredEnv(bot) \subseteq sEnv
(***************************************************************************)
(* C21: loading a store                                                    *)
(***************************************************************************)
\* C21: for every store, a load from a missing or malformed file gives the
\* store's default value: it never raises.
C21_LoadDefaults ==
    \A s \in Stores :
        (lFiles[s] \in {"missing", "malformed"} /\ lOut[s] # "unloaded") =>
            lOut[s] = "default"
(***************************************************************************)
(* C22: /message off                                                       *)
(***************************************************************************)
\* C22: sync_task starts the send of an alert only while messaging is enabled:
\* after /message off and until the next /message on, no alert is sent.
C22_SilentWhenOff == [][(xPc # "alert" /\ xPc' = "alert") => xEnabled]_vars
(***************************************************************************)
(* C23: the first-run fetch gives nothing                                  *)
(***************************************************************************)
\* C23: when the first-run fetch returns no data and the cache is still empty,
\* the scheduler sends no reminder and sleeps one hour; when that sleep is over
\* (not before) it goes back to the start of the cycle, again with no reminder.
C23_RetryAfterHour ==
    [][ /\ (nPc = "fetch1" /\ nPc' \notin {"fetch1", "down"} /\ nCache' = <<>>) =>
              /\ nPc' = "retry"
              /\ nWake' = nNow + RetryHours
              /\ gSent' = gSent
              /\ gCycle'.fired = <<>>
        /\ (nPc = "retry" /\ nPc' \notin {"retry", "down"}) =>
              /\ nPc' = "start"
              /\ nNow >= nWake
              /\ gSent' = gSent
      ]_vars

\* C23 witness: with no cache, the hour after an empty first-run fetch has passed
\* and the scheduler is about to retry
C23_Witness ==
    /\ nPc = "retry"
    /\ nCache = <<>>
    /\ nWake > 0
    /\ nNow = nWake
\* C24: in a tick of the monitor there is one fetch for each distinct station
\* that had a watch when the tick started, however many watches name it, and
\* no fetch for a station that had none: no station is ever fetched twice in a
\* tick, every fetched station was watched at the start, and a tick that runs
\* to its end has fetched every station watched at its start.
C24_OneFetch ==
    [][ /\ \A s \in Stations :
              /\ gTick'.count[s] <= 1
              /\ gTick'.count[s] = 1 => s \in gTick'.start
        /\ (tPc = "iter" /\ tLoc.idx > Len(tLoc.items) /\ tPc' = "sleep") =>
              \A s \in gTick.start : gTick.count[s] = 1 ]_vars

\* two watches of one station, and the tick at its end with one fetch made
C24_Witness ==
    /\ tPc = "iter"
    /\ tLoc.idx > Len(tLoc.items)
    /\ tLoc.stations = {}
    /\ Len(tSubs) = 2
    /\ Len(tLoc.items) = 2
    /\ tSubs[1].origin = tSubs[2].origin
    /\ gTick.start = {tSubs[1].origin}
    /\ gTick.count[tSubs[1].origin] = 1

\* C25: a /watch <time> command, in whatever state the handler is, also before
\* any /trains command, returns its confirmation and does not raise.
C25_WatchReplies == gReply # "raised"
\* C26: in a check pass every pending reminder whose time is at or before now
\* is alerted and removed from the list and from the file, and every reminder
\* whose time is still in the future is neither alerted nor removed: at the
\* end of a pass no due reminder of the pass is left in the list or the file,
\* and every reminder of the list whose time is ahead of the clock is still in
\* the list and in the file.
C26_PassRemovesDue ==
    [][ (mPc = "alert" /\ mPc' = "sleep") =>
            /\ \A r \in RangeOf(mLoc.due) :
                  r \notin RangeOf(mReminders') /\ r \notin RangeOf(mFile')
            /\ \A r \in RangeOf(mReminders) :
                  r.time > mNow => r \in RangeOf(mReminders') /\ r \in RangeOf(mFile') ]_vars

\* C27: /del n deletes exactly the n-th reminder of the time-sorted list when
\* 1 <= n <= the number of reminders, and for every other n leaves the list
\* and the file as they were.
C27_DelExact ==
    [][ gDel' # <<>> =>
            LET n == gDel'[1]
                sorted_r == SortedByTime(mReminders)
            IN  IF 1 <= n /\ n <= Len(sorted_r)
                THEN mReminders' = RemoveAt(sorted_r, n) /\ mFile' = mReminders'
                ELSE mReminders' = mReminders /\ mFile' = mFile ]_vars

\* C28: when the refresh fetch fails while a stale cache exists, the scheduler
\* sleeps before its next fetch attempt: there are never two cycles in a row
\* that each fire no milestone and go to the refresh fetch with no sleep.
C28_SleepsBetween == gCycle.rushed < 2

\* the collection date a cached date text stands for: the one day of the
\* modelled period with that day and month
C29_TrueDate(date) ==
    HoursPerDay * (CHOOSE day \in BinStartDay..(BinStartDay + MaxBinDays + FetchHorizon) :
                      day % DaysPerYear = date)

\* every cached collection day is over
C29_AllPast == \A i \in DOMAIN nCache : C29_TrueDate(nCache[i].date) + HoursPerDay <= nNow

\* C29: when every cached collection date is already in the past at the start
\* of a cycle, the cycle fires no milestone from the stale data and refreshes:
\* it goes to the refresh fetch, at once or after the sleep to the refresh time
\* of a cached date, and never sleeps toward a milestone of a date obtained by
\* reading a stale record as a date of the year to come.
C29_StaleRefreshes ==
    [][ (/\ nPc = "start"
         /\ nPc' \notin {"start", "down"}
         /\ nCache # <<>>
         /\ ~Unparseable(nCache)
         /\ C29_AllPast) =>
            \/ nPc' = "fetch2"
            \/ /\ nPc' = "sleep"
               /\ Milestones[nLoc'.idx] = "refresh"
               /\ nLoc'.next_date \in {C29_TrueDate(nCache[i].date) : i \in DOMAIN nCache} ]_vars

\* C30: every slash-command of one poll is dispatched, also when the handling
\* of an earlier message of the poll raises: when the router has left a batch,
\* each command of it that came under an id with a branch in the chain has had
\* its handle_command call.
C30_AllDispatched ==
    rPc = "sleep" =>
        \A i \in DOMAIN rBatch :
            (IsCommand(rBatch[i]) /\ rBatch[i].id \in C7_Bound) =>
                \E k \in DOMAIN gCalls : gCalls[k].idx = i
\* C31: a process restart does not change the allowance checkpoint: the
\* last_weekly_update that the bot loads when it starts again is the one it
\* held in memory when it stopped, also when no state file existed at the
\* first start and nothing has been saved since.
C31_RestartKeeps ==
    [][ (bPc = "down" /\ bPc' = "eval") =>
            bMem'.last_weekly_update = gCred.held ]_vars

\* C32: the stored last-event timestamp of a device never decreases, and each
\* camera event produces at most one alert over any sequence of sync ticks,
\* failed ticks and restarts: an alert is sent only for an event that has had
\* none, that is after the stored timestamp, and whose clip file did not exist.
C32_OneAlert ==
    [][ /\ \A d \in DOMAIN xState : xState'[d] >= xState[d]
        /\ (xPc # "alert" /\ xPc' = "alert") =>
              LET start_time == xLoc'.events[xLoc'.idx]
                  clip == <<xLoc'.dev, start_time>>
              IN  /\ clip \notin gAlerted
                  /\ clip \notin xClips
                  /\ xState[xLoc'.dev] = NoTimestamp \/ start_time > xState[xLoc'.dev] ]_vars

\* an event that was alerted comes back in a later tick, after a failure or a
\* restart that kept its timestamp from being stored
C32_Witness ==
    /\ xPc = "event"
    /\ xLoc.idx <= Len(xLoc.events)
    /\ <<xLoc.dev, xLoc.events[xLoc.idx]>> \in gAlerted
    /\ xLoc.latest = NoTimestamp
    /\ xStops = 1

\* C33: the stored last-event timestamp of a device does not advance past an
\* event whose clip download returned no data and whose clip was never saved,
\* so that a later tick attempts it again.
C33_Retried ==
    \A clip \in gMiss :
        xState[clip[1]] = NoTimestamp \/ clip[2] > xState[clip[1]]

====
